---- MODULE Spec2Model ----
(***************************************************************************)
(* Riivolution patcher (DiscIO::Riivolution): path sandbox resolver,       *)
(* splice builder for file segment lists, FST tree resolver and the        *)
(* memory patch engine.  Strings are sequences of one-character strings.   *)
(***************************************************************************)
EXTENDS Integers, Sequences, FiniteSets, TLC

(***************************************************************************)
(* Bounds of the model.                                                    *)
(***************************************************************************)
MaxPathLen == 7

MaxCalls == 2

MaxPatchOffset == 2

MaxPatchLength == 2

MaxExternalOffset == 2

AddrBits == 4

RamSize == 4

MaxValueLen == 2

MaxStride == 3

HookWords == 3

MaxByteOffset == 5

\* bytes of a save block in the model (0x2000 in the program)
BlockSize == 3

(***************************************************************************)
(* Generic sequence helpers.                                               *)
(***************************************************************************)
Min(a, b) == IF a <= b THEN a ELSE b

Max(a, b) == IF a >= b THEN a ELSE b

RECURSIVE SeqsUpTo(_, _)
SeqsUpTo(S, n) ==
    IF n = 0 THEN {<<>>}
    ELSE LET shorter == SeqsUpTo(S, n - 1)
         IN  shorter \cup {Append(s, c) : s \in {t \in shorter : Len(t) = n - 1}, c \in S}

\* the element of a one-element set; {F(v) : v \in {e}} evaluates e once
TheOnly(S) == CHOOSE x \in S : TRUE

Prefix(s, n) == SubSeq(s, 1, n)

DropFirst(s, n) == SubSeq(s, n + 1, Len(s))

IsPrefixOf(p, s) == Len(p) <= Len(s) /\ Prefix(s, Len(p)) = p

\* std::string_view::find(c): 1-based position of the first c, 0 for npos
Find(s, c) ==
    IF \E i \in 1..Len(s) : s[i] = c
    THEN CHOOSE i \in 1..Len(s) : s[i] = c /\ \A j \in 1..(i - 1) : s[j] # c
    ELSE 0

\* position of the last c, 0 when there is none
FindLast(s, c) ==
    IF \E i \in 1..Len(s) : s[i] = c
    THEN CHOOSE i \in 1..Len(s) : s[i] = c /\ \A j \in (i + 1)..Len(s) : s[j] # c
    ELSE 0

(***************************************************************************)
(* Path sandbox resolver: FileDataLoaderHostFS::MakeAbsoluteFromRelative.  *)
(***************************************************************************)
PathChars == {"/", ".", "a"}

RelPaths == SeqsUpTo(PathChars, MaxPathLen)

RootChoices == {<<"/", "s">>, <<"/", "s", "/", "p">>, <<"/", "q">>}

StringBeginsWith(s, c) == Len(s) > 0 /\ s[1] = c

StringEndsWith(s, c) == Len(s) > 0 /\ s[Len(s)] = c

RECURSIVE StripLeading(_)
StripLeading(s) == IF StringBeginsWith(s, "/") THEN StripLeading(Tail(s)) ELSE s

RECURSIVE StripTrailing(_)
StripTrailing(s) ==
    IF StringEndsWith(s, "/") THEN StripTrailing(Prefix(s, Len(s) - 1)) ELSE s

AllDots(element) == \A i \in 1..Len(element) : element[i] = "."

\* while (result.back() != '/') result.pop_back(); result.pop_back();
\* (only executed with depth > 0, i.e. after a '/' was appended)
RemoveLastElement(result) ==
    IF FindLast(result, "/") = 0 THEN <<>>
    ELSE Prefix(result, FindLast(result, "/") - 1)

\* the state at the top of the while (true) loop
StartRootSwapped(path, sd_root, patch_root) ==
    [work   |-> StripTrailing(StripLeading(path)),
     result |-> IF StringBeginsWith(path, "/") THEN patch_root ELSE sd_root,
     depth  |-> 0,
     status |-> "walk"]

WalkStart(path, sd_root, patch_root) ==
    [work   |-> StripTrailing(StripLeading(path)),
     result |-> IF StringBeginsWith(path, "/") THEN sd_root ELSE patch_root,
     depth  |-> 0,
     status |-> "walk"]

\* the walk with the depth check of ".." left out
StepNoDepthCheck(w) ==
    IF w.work = <<>> THEN [w EXCEPT !.status = "ok"]
    ELSE
      LET separator_position == Find(w.work, "/")
          element == IF separator_position = 0 THEN w.work
                     ELSE Prefix(w.work, separator_position - 1)
          after ==
            IF element = <<".">> THEN w
            ELSE IF element = <<".", ".">> THEN
              [w EXCEPT !.depth = IF w.depth = 0 THEN 0 ELSE w.depth - 1,
                        !.result = RemoveLastElement(w.result)]
            ELSE IF AllDots(element) THEN [w EXCEPT !.status = "fail"]
            ELSE [w EXCEPT !.depth = w.depth + 1,
                           !.result = w.result \o <<"/">> \o element]
      IN  IF after.status = "fail" THEN after
          ELSE IF separator_position = 0 THEN [after EXCEPT !.status = "ok"]
          ELSE [after EXCEPT !.work = StripLeading(DropFirst(w.work, separator_position))]

\* the walk with dot-only elements treated as repeated "up" traversal
StepDotsAsUp(w) ==
    IF w.work = <<>> THEN [w EXCEPT !.status = "ok"]
    ELSE
      LET separator_position == Find(w.work, "/")
          element == IF separator_position = 0 THEN w.work
                     ELSE Prefix(w.work, separator_position - 1)
          after ==
            IF element = <<".">> THEN w
            ELSE IF AllDots(element) THEN
              IF w.depth = 0 THEN [w EXCEPT !.status = "fail"]
              ELSE [w EXCEPT !.depth = w.depth - 1,
                             !.result = RemoveLastElement(w.result)]
            ELSE [w EXCEPT !.depth = w.depth + 1,
                           !.result = w.result \o <<"/">> \o element]
      IN  IF after.status = "fail" THEN after
          ELSE IF separator_position = 0 THEN [after EXCEPT !.status = "ok"]
          ELSE [after EXCEPT !.work = StripLeading(DropFirst(w.work, separator_position))]

\* the walk where "." is appended like a normal element
StepDotAppended(w) ==
    IF w.work = <<>> THEN [w EXCEPT !.status = "ok"]
    ELSE
      LET separator_position == Find(w.work, "/")
          element == IF separator_position = 0 THEN w.work
                     ELSE Prefix(w.work, separator_position - 1)
          after ==
            IF element = <<".", ".">> THEN
              IF w.depth = 0 THEN [w EXCEPT !.status = "fail"]
              ELSE [w EXCEPT !.depth = w.depth - 1,
                             !.result = RemoveLastElement(w.result)]
            ELSE IF AllDots(element) /\ element # <<".">> THEN [w EXCEPT !.status = "fail"]
            ELSE [w EXCEPT !.depth = w.depth + 1,
                           !.result = w.result \o <<"/">> \o element]
      IN  IF after.status = "fail" THEN after
          ELSE IF separator_position = 0 THEN [after EXCEPT !.status = "ok"]
          ELSE [after EXCEPT !.work = StripLeading(DropFirst(w.work, separator_position))]

\* one iteration of the while (true) loop
WalkStep(w) ==
    IF w.work = <<>> THEN [w EXCEPT !.status = "ok"]
    ELSE
      LET separator_position == Find(w.work, "/")
          element == IF separator_position = 0 THEN w.work
                     ELSE Prefix(w.work, separator_position - 1)
          after ==
            IF element = <<".">> THEN w
            ELSE IF element = <<".", ".">> THEN
              IF w.depth = 0 THEN [w EXCEPT !.status = "fail"]
              ELSE [w EXCEPT !.depth = w.depth - 1,
                             !.result = RemoveLastElement(w.result)]
            ELSE IF AllDots(element) THEN [w EXCEPT !.status = "fail"]
            ELSE [w EXCEPT !.depth = w.depth + 1,
                           !.result = w.result \o <<"/">> \o element]
      IN  IF after.status = "fail" THEN after
          ELSE IF separator_position = 0 THEN [after EXCEPT !.status = "ok"]
          ELSE [after EXCEPT !.work = StripLeading(DropFirst(w.work, separator_position))]

RECURSIVE WalkAll(_)
WalkAll(w) ==
    IF w.status = "walk" THEN TheOnly({WalkAll(next) : next \in {WalkStep(w)}}) ELSE w

\* std::optional<std::string>: ok = FALSE is std::nullopt
MakeAbsoluteFromRelative(path, sd_root, patch_root) ==
    TheOnly({IF w.status = "ok" THEN [ok |-> TRUE, path |-> w.result]
             ELSE [ok |-> FALSE, path |-> <<>>] :
             w \in {WalkAll(TheOnly({start : start \in {WalkStart(path, sd_root, patch_root)}}))}})

(***************************************************************************)
(* External data loader (FileDataLoaderHostFS) over a fixed host file      *)
(* system.  HostFiles maps the absolute path of every regular file to its  *)
(* size; every other path is not a file.                                   *)
(***************************************************************************)
HostFileContents ==
    (<<"/", "s", "/", "p", "/", "x">> :> <<1, 2>>) @@
    (<<"/", "s", "/", "y">> :> <<2, 2, 1>>) @@
    (<<"/", "s", "/", "p", "/", "k", "/", "f">> :> <<2>>) @@
    (<<"/", "s", "/", "p", "/", "k", "/", "u", "/", "n">> :> <<1, 1, 2>>) @@
    (<<"/", "e">> :> <<1>>)

\* ::File::FileInfo(path).GetSize() of the regular files
HostFiles == [path \in DOMAIN HostFileContents |-> Len(HostFileContents[path])]

Loader == [sd_root |-> <<"/", "s">>, patch_root |-> <<"/", "s", "/", "p">>]

NoSize == [ok |-> FALSE, size |-> 0]

\* std::optional<u64>: ok = FALSE is std::nullopt
GetExternalFileSize(loader, external_relative_path) ==
    TheOnly({IF ~path.ok THEN NoSize
             ELSE IF path.path \notin DOMAIN HostFiles THEN NoSize
             ELSE [ok |-> TRUE, size |-> HostFiles[path.path]] :
             path \in {MakeAbsoluteFromRelative(external_relative_path, loader.sd_root,
                                                loader.patch_root)}})

\* std::vector<u8>, empty when the path is rejected or the file cannot be read
GetFileContents(loader, external_relative_path) ==
    TheOnly({IF ~path.ok THEN <<>>
             ELSE IF path.path \notin DOMAIN HostFileContents THEN <<>>
             ELSE HostFileContents[path.path] :
             path \in {MakeAbsoluteFromRelative(external_relative_path, loader.sd_root,
                                                loader.patch_root)}})

\* the directories of the host file system with their entries in scan order
HostDirs ==
    (<<"/", "s", "/", "p", "/", "k">> :>
        <<[m_filename |-> <<"f">>, m_is_directory |-> FALSE],
          [m_filename |-> <<"u">>, m_is_directory |-> TRUE]>>) @@
    (<<"/", "s", "/", "p", "/", "k", "/", "u">> :>
        <<[m_filename |-> <<"n">>, m_is_directory |-> FALSE]>>)

\* std::vector<FileDataLoader::Node>, empty when the path is rejected or no directory
GetFolderContents(loader, external_relative_path) ==
    TheOnly({IF ~path.ok THEN <<>>
             ELSE IF path.path \notin DOMAIN HostDirs THEN <<>>
             ELSE HostDirs[path.path] :
             path \in {MakeAbsoluteFromRelative(external_relative_path, loader.sd_root,
                                                loader.patch_root)}})

(***************************************************************************)
(* Content segment model (DirectoryBlob.h).  A source is a record          *)
(* [kind, ref, off]: ContentFile (ref = host path, off = m_offset),        *)
(* const u8* (ref = buffer, off = pointer offset), ContentPartition,       *)
(* ContentVolume (off = m_offset) and ContentFixedByte (ref = m_byte, no   *)
(* offset).  A BuilderContentSource is [m_offset, m_size, m_source].       *)
(***************************************************************************)
ContentFile(filename, offset) == [kind |-> "File", ref |-> filename, off |-> offset]

ContentMemory(buffer, offset) == [kind |-> "Memory", ref |-> buffer, off |-> offset]

ContentPartition(reader, offset) == [kind |-> "Partition", ref |-> reader, off |-> offset]

ContentVolume(volume, offset) == [kind |-> "Volume", ref |-> volume, off |-> offset]

ContentFixedByte(byte) == [kind |-> "Fixed", ref |-> byte, off |-> 0]

BuilderContentSource(offset, size, source) ==
    [m_offset |-> offset, m_size |-> size, m_source |-> source]

FileNode(filename, size, content) ==
    [m_filename |-> filename, m_size |-> size, is_file |-> TRUE, m_content |-> content]

FolderNode(filename, children) ==
    [m_filename |-> filename, m_size |-> 0, is_file |-> FALSE, m_content |-> children]

MakeContentSource(loader, external_relative_path, external_offset, external_size, disc_offset) ==
    TheOnly({IF ~path.ok
             THEN BuilderContentSource(disc_offset, external_size, ContentFixedByte(0))
             ELSE BuilderContentSource(disc_offset, external_size,
                                       ContentFile(path.path, external_offset)) :
             path \in {MakeAbsoluteFromRelative(external_relative_path, loader.sd_root,
                                                loader.patch_root)}})

(***************************************************************************)
(* Mutable splice builder: SplitAt and ApplyPatchToFile.                   *)
(***************************************************************************)
InsertAt(seq, i, x) == Prefix(seq, i - 1) \o <<x>> \o DropFirst(seq, i - 1)

\* erase the elements at positions from..(to - 1)
EraseRange(seq, from, to) == Prefix(seq, from - 1) \o DropFirst(seq, to - 1)

\* a split that leaves the source of the right half where it was
SplitAtSourceKept(source, split_at) ==
    <<[source EXCEPT !.m_size = split_at - source.m_offset],
      [source EXCEPT !.m_offset = split_at,
                     !.m_size = source.m_offset + source.m_size - split_at]>>

\* the two halves <<before, after>> of a source split at split_at
SplitAt(source, split_at) ==
    LET start == source.m_offset
        size == source.m_size
        end == start + size
        before_size == split_at - start
    IN  <<[source EXCEPT !.m_size = before_size],
          [source EXCEPT
             !.m_offset = source.m_offset + before_size,
             !.m_size = end - split_at,
             !.m_source.off =
                 IF source.m_source.kind \in {"File", "Memory", "Partition", "Volume"}
                 THEN source.m_source.off + before_size
                 ELSE source.m_source.off]>>

\* content.insert(content.begin() + i + 1, content[i]); SplitAt(&content[i], &content[i + 1], at)
SplitInPlace(content, i, at) ==
    Prefix(content, i - 1) \o SplitAt(content[i], at) \o DropFirst(content, i)

\* first loop of the else branch: split sources at patch_start and patch_end
RECURSIVE SplitSources(_, _, _, _)
SplitSources(content, i, patch_start, patch_end) ==
    IF i > Len(content) THEN content
    ELSE
      LET source_start == content[i].m_offset
          source_end == source_start + content[i].m_size
      IN  IF patch_start > source_start /\ patch_start < source_end
          THEN TheOnly({SplitSources(c, i + 1, patch_start, patch_end) :
                        c \in {SplitInPlace(content, i, patch_start)}})
          ELSE IF patch_end > source_start /\ patch_end < source_end
          THEN TheOnly({SplitSources(c, i + 1, patch_start, patch_end) :
                        c \in {SplitInPlace(content, i, patch_end)}})
          ELSE SplitSources(content, i + 1, patch_start, patch_end)

\* while (i < content.size() && patch_end >= content[i].m_offset + content[i].m_size) ++i
RECURSIVE SkipCovered(_, _, _)
SkipCovered(content, i, patch_end) ==
    IF i <= Len(content) /\ patch_end >= content[i].m_offset + content[i].m_size
    THEN SkipCovered(content, i + 1, patch_end)
    ELSE i

\* the discard loop that remembers the place but erases nothing
DiscardNothing(content, patch_start, patch_end) ==
    IF \E i \in 1..Len(content) : content[i].m_offset = patch_start
    THEN [content |-> content,
          insert_where |-> CHOOSE k \in 1..Len(content) :
                              /\ content[k].m_offset = patch_start
                              /\ \A j \in 1..(k - 1) : content[j].m_offset # patch_start]
    ELSE [content |-> content, insert_where |-> 1]

\* second loop of the else branch: erase the overlapped sources; insert_where
\* is the 1-based position of the erased range (1 when no source starts at
\* patch_start: size_t insert_where = 0)
DiscardOverlapping(content, patch_start, patch_end) ==
    IF \E i \in 1..Len(content) : content[i].m_offset = patch_start
    THEN TheOnly({[content |-> EraseRange(content, i, SkipCovered(content, i, patch_end)),
                   insert_where |-> i] :
                  i \in {CHOOSE k \in 1..Len(content) :
                            /\ content[k].m_offset = patch_start
                            /\ \A j \in 1..(k - 1) : content[j].m_offset # patch_start}})
    ELSE [content |-> content, insert_where |-> 1]

\* the truncation that keeps the sources past the new end of the file
DropNothing(content, target_filesize) == content

\* while (!content.empty() && content.back().m_offset >= target_filesize) content.pop_back()
RECURSIVE DropPastEnd(_, _)
DropPastEnd(content, target_filesize) ==
    IF content # <<>> /\ content[Len(content)].m_offset >= target_filesize
    THEN DropPastEnd(Prefix(content, Len(content) - 1), target_filesize)
    ELSE content

\* a geometry in which the resize flag never shrinks the file
PatchGeometryNeverShrinks(file_size, raw_external_filesize, file_patch_offset, raw_external_file_offset, file_patch_length, resize) ==
    LET external_file_offset == Min(raw_external_file_offset, raw_external_filesize)
        external_filesize == raw_external_filesize - external_file_offset
        patch_size == IF file_patch_length = 0 THEN external_filesize ELSE file_patch_length
    IN  [external_file_offset |-> external_file_offset,
         external_filesize |-> external_filesize,
         patch_start |-> file_patch_offset,
         patch_size |-> patch_size,
         patch_end |-> file_patch_offset + patch_size,
         target_filesize |-> Max(file_size, file_patch_offset + patch_size)]

\* lines 227-235: the offsets and sizes derived from the arguments
PatchGeometry(file_size, raw_external_filesize, file_patch_offset, raw_external_file_offset, file_patch_length, resize) ==
    LET external_file_offset == Min(raw_external_file_offset, raw_external_filesize)
        external_filesize == raw_external_filesize - external_file_offset
        patch_start == file_patch_offset
        patch_size == IF file_patch_length = 0 THEN external_filesize ELSE file_patch_length
        patch_end == patch_start + patch_size
    IN  [external_file_offset |-> external_file_offset,
         external_filesize |-> external_filesize,
         patch_start |-> patch_start,
         patch_size |-> patch_size,
         patch_end |-> patch_end,
         target_filesize |-> IF resize THEN patch_end ELSE Max(file_size, patch_end)]

\* lines 237-286: pad or split and discard; the content and the insert position
PlacePatch(content, file_size, patch_start, patch_end) ==
    IF patch_start >= file_size
    THEN IF patch_start > file_size
         THEN [content |-> Append(content,
                                  BuilderContentSource(file_size, patch_start - file_size,
                                                       ContentFixedByte(0))),
               insert_where |-> Len(content) + 2]
         ELSE [content |-> content, insert_where |-> Len(content) + 1]
    ELSE TheOnly({DiscardOverlapping(split, patch_start, patch_end) :
                  split \in {SplitSources(content, 1, patch_start, patch_end)}})

\* an insertion that leaves out the zero padding after the patch data
InsertDataOnly(loader, placed, external_filename, g) ==
    IF g.patch_size > 0 /\ g.external_filesize > 0
    THEN InsertAt(placed.content, placed.insert_where,
                  MakeContentSource(loader, external_filename, g.external_file_offset,
                                    Min(g.patch_size, g.external_filesize), g.patch_start))
    ELSE placed.content

\* lines 288-304: insert the patch data, then the zero padding
InsertPatchData(loader, placed, external_filename, g) ==
    LET has_data == g.patch_size > 0 /\ g.external_filesize > 0
        with_data ==
          IF has_data
          THEN InsertAt(placed.content, placed.insert_where,
                        MakeContentSource(loader, external_filename, g.external_file_offset,
                                          Min(g.patch_size, g.external_filesize),
                                          g.patch_start))
          ELSE placed.content
        insert_where == IF has_data THEN placed.insert_where + 1 ELSE placed.insert_where
    IN  IF g.external_filesize < g.patch_size
        THEN InsertAt(with_data, insert_where,
                      BuilderContentSource(g.patch_start + g.external_filesize,
                                           g.patch_size - g.external_filesize,
                                           ContentFixedByte(0)))
        ELSE with_data

\* lines 225-311 of ApplyPatchToFile, after the external size f was obtained
SpliceIntoFile(loader, file_node, external_filename, g) ==
    TheOnly({[file_node EXCEPT
                !.m_size = g.target_filesize,
                !.m_content =
                    DropPastEnd(TheOnly({d : d \in {InsertPatchData(loader, placed,
                                                                     external_filename, g)}}),
                                g.target_filesize)] :
             placed \in {PlacePatch(file_node.m_content, file_node.m_size,
                                    g.patch_start, g.patch_end)}})

\* ApplyPatchToFile(patch, file_node, external_filename, file_patch_offset,
\*                  raw_external_file_offset, file_patch_length, resize)
ApplyPatchToFile(loader, file_node, external_filename, file_patch_offset, raw_external_file_offset, file_patch_length, resize) ==
    TheOnly({IF ~f.ok THEN file_node
             ELSE TheOnly({SpliceIntoFile(loader, file_node, external_filename, g) :
                           g \in {PatchGeometry(file_node.m_size, f.size, file_patch_offset,
                                                raw_external_file_offset, file_patch_length,
                                                resize)}}) :
             f \in {GetExternalFileSize(loader, external_filename)}})

\* a file patch that passes the offset on as it is
ApplyPatchToFileNodeUnaligned(loader, file_patch, file_node) ==
    ApplyPatchToFile(loader, file_node, file_patch.m_external, file_patch.m_offset,
                     file_patch.m_fileoffset, file_patch.m_length, file_patch.m_resize)

\* ApplyPatchToFile(patch, file_patch, file_node): the last two bits of the
\* offset are ignored (file_patch.m_offset & ~u64(3))
ApplyPatchToFileNode(loader, file_patch, file_node) ==
    ApplyPatchToFile(loader, file_node, file_patch.m_external,
                     file_patch.m_offset - (file_patch.m_offset % 4),
                     file_patch.m_fileoffset, file_patch.m_length, file_patch.m_resize)

(***************************************************************************)
(* Immutable range index (DiscContentContainer): the segments of a         *)
(* finished file node in a std::set ordered by end offset.  The set is a   *)
(* sequence sorted by end offset without two elements of the same end.     *)
(***************************************************************************)
\* the memory behind the const u8* sources
Buffers == ("buf" :> <<3, 4, 5, 6, 8>>)

DiscContent(offset, size, source) == [m_offset |-> offset, m_size |-> size, m_content_source |-> source]

GetEndOffset(content) == content.m_offset + content.m_size

\* std::set::emplace: no second element with an equivalent key
Add(contents, offset, size, source) ==
    IF \E i \in 1..Len(contents) : GetEndOffset(contents[i]) = offset + size THEN contents
    ELSE LET below == Cardinality({i \in 1..Len(contents) :
                                     GetEndOffset(contents[i]) < offset + size})
         IN  InsertAt(contents, below + 1, DiscContent(offset, size, source))

\* the index of the sources from position k on, added in list order
RECURSIVE AddSources(_, _, _)
AddSources(contents, sources, k) ==
    IF k > Len(sources) THEN contents
    ELSE AddSources(Add(contents, sources[k].m_offset, sources[k].m_size,
                        sources[k].m_source),
                    sources, k + 1)

\* the frozen index of a file node
Freeze(file_node) == AddSources(<<>>, file_node.m_content, 1)

\* upper_bound(DiscContent(offset)): the first element whose end offset
\* exceeds offset, Len + 1 for end()
UpperBound(contents, offset) ==
    IF \E i \in 1..Len(contents) : GetEndOffset(contents[i]) > offset
    THEN CHOOSE i \in 1..Len(contents) :
            /\ GetEndOffset(contents[i]) > offset
            /\ \A j \in 1..(i - 1) : GetEndOffset(contents[j]) <= offset
    ELSE Len(contents) + 1

\* a resolution that reads every source from its first byte
SourceBytesFromStart(source, offset_in_content, count) ==
    IF source.kind = "Fixed" THEN [j \in 1..count |-> source.ref]
    ELSE IF source.kind = "Memory"
    THEN [j \in 1..count |-> Buffers[source.ref][offset_in_content + j]]
    ELSE [j \in 1..count |-> HostFileContents[source.ref][offset_in_content + j]]

\* count bytes of a source from offset_in_content on: a fill, a slice of the
\* buffer, or a seek and read of the host file
SourceBytes(source, offset_in_content, count) ==
    IF source.kind = "Fixed" THEN [j \in 1..count |-> source.ref]
    ELSE IF source.kind = "Memory"
    THEN [j \in 1..count |-> Buffers[source.ref][source.off + offset_in_content + j]]
    ELSE [j \in 1..count |-> HostFileContents[source.ref][source.off + offset_in_content + j]]

OutOfRange(bytes) == [ok |-> FALSE, bytes |-> bytes]

\* the loop of Read: consecutive elements from position it on, until length
\* bytes are produced; a gap before an element or the end of the index fails
RECURSIVE ReadFrom(_, _, _, _, _)
ReadFrom(contents, it, offset, length, bytes) ==
    IF length = 0 THEN [ok |-> TRUE, bytes |-> bytes]
    ELSE IF it > Len(contents) THEN OutOfRange(bytes)
    ELSE IF contents[it].m_offset > offset THEN OutOfRange(bytes)
    ELSE LET offset_in_content == offset - contents[it].m_offset
             bytes_to_read == Min(contents[it].m_size - offset_in_content, length)
         IN  IF offset_in_content >= contents[it].m_size
             THEN ReadFrom(contents, it + 1, offset, length, bytes)
             ELSE ReadFrom(contents, it + 1, offset + bytes_to_read, length - bytes_to_read,
                           bytes \o SourceBytes(contents[it].m_content_source,
                                                offset_in_content, bytes_to_read))

Read(contents, offset, length) ==
    ReadFrom(contents, UpperBound(contents, offset), offset, length, <<>>)

(***************************************************************************)
(* Tree resolver.  A pointer to a node is the sequence of child positions  *)
(* that leads to it from the root list; <<>> is nullptr.                   *)
(***************************************************************************)
UpperChars ==
    <<"A", "B", "C", "D", "E", "F", "G", "H", "I", "J", "K", "L", "M",
      "N", "O", "P", "Q", "R", "S", "T", "U", "V", "W", "X", "Y", "Z">>

LowerChars ==
    <<"a", "b", "c", "d", "e", "f", "g", "h", "i", "j", "k", "l", "m",
      "n", "o", "p", "q", "r", "s", "t", "u", "v", "w", "x", "y", "z">>

\* Common::ToLower
ToLower(c) ==
    IF \E i \in 1..Len(UpperChars) : UpperChars[i] = c
    THEN LowerChars[CHOOSE i \in 1..Len(UpperChars) : UpperChars[i] = c]
    ELSE c

CaseInsensitiveEquals(a, b) ==
    /\ Len(a) = Len(b)
    /\ \A i \in 1..Len(a) : ToLower(a[i]) = ToLower(b[i])

\* a find_if that compares the names byte by byte
FindChildCaseSensitive(fst, name) ==
    IF \E k \in 1..Len(fst) : fst[k].m_filename = name
    THEN CHOOSE k \in 1..Len(fst) :
            /\ fst[k].m_filename = name
            /\ \A j \in 1..(k - 1) : fst[j].m_filename # name
    ELSE 0

\* std::find_if over the children: position of the first match, 0 for end()
FindChild(fst, name) ==
    IF \E k \in 1..Len(fst) : CaseInsensitiveEquals(fst[k].m_filename, name)
    THEN CHOOSE k \in 1..Len(fst) :
            /\ CaseInsensitiveEquals(fst[k].m_filename, name)
            /\ \A j \in 1..(k - 1) : ~CaseInsensitiveEquals(fst[j].m_filename, name)
    ELSE 0

NullNode(fst) == [node |-> <<>>, fst |-> fst]

RECURSIVE FindFileNodeInFST(_, _, _)

\* a find_if that only accepts a child of the kind the remaining path implies
FindChildOfKind(fst, name, is_file) ==
    IF \E k \in 1..Len(fst) :
          CaseInsensitiveEquals(fst[k].m_filename, name) /\ fst[k].is_file = is_file
    THEN CHOOSE k \in 1..Len(fst) :
            /\ CaseInsensitiveEquals(fst[k].m_filename, name) /\ fst[k].is_file = is_file
            /\ \A j \in 1..(k - 1) :
                  ~(CaseInsensitiveEquals(fst[j].m_filename, name) /\ fst[j].is_file = is_file)
    ELSE 0

\* a lookup that treats a child of the wrong kind as a missing child
FindFileNodeOfKind(path, fst, create_if_not_exists) ==
    LET path_separator == Find(path, "/")
        is_file == path_separator = 0
        name == IF is_file THEN path ELSE Prefix(path, path_separator - 1)
    IN  TheOnly({
          IF it = 0
          THEN IF ~create_if_not_exists THEN NullNode(fst)
               ELSE IF is_file
               THEN [node |-> <<Len(fst) + 1>>, fst |-> Append(fst, FileNode(name, 0, <<>>))]
               ELSE TheOnly({[node |-> IF sub.node = <<>> THEN <<>>
                                       ELSE <<Len(fst) + 1>> \o sub.node,
                              fst |-> Append(fst, FolderNode(name, sub.fst))] :
                             sub \in {FindFileNodeInFST(DropFirst(path, path_separator),
                                                        <<>>, TRUE)}})
          ELSE IF is_file THEN [node |-> <<it>>, fst |-> fst]
          ELSE TheOnly({[node |-> IF sub.node = <<>> THEN <<>> ELSE <<it>> \o sub.node,
                         fst |-> [fst EXCEPT ![it].m_content = sub.fst]] :
                        sub \in {FindFileNodeInFST(DropFirst(path, path_separator),
                                                   fst[it].m_content, create_if_not_exists)}})
          : it \in {FindChildOfKind(fst, name, is_file)}})

\* the node pointer returned and the children list as the call leaves it
FindFileNodeInFST(path, fst, create_if_not_exists) ==
    LET path_separator == Find(path, "/")
        is_file == path_separator = 0
        name == IF is_file THEN path ELSE Prefix(path, path_separator - 1)
    IN  TheOnly({
          IF it = 0
          THEN IF ~create_if_not_exists THEN NullNode(fst)
               ELSE IF is_file
               THEN [node |-> <<Len(fst) + 1>>, fst |-> Append(fst, FileNode(name, 0, <<>>))]
               ELSE TheOnly({[node |-> IF sub.node = <<>> THEN <<>>
                                       ELSE <<Len(fst) + 1>> \o sub.node,
                              fst |-> Append(fst, FolderNode(name, sub.fst))] :
                             sub \in {FindFileNodeInFST(DropFirst(path, path_separator),
                                                        <<>>, TRUE)}})
          ELSE IF is_file # fst[it].is_file THEN NullNode(fst)
          ELSE IF is_file THEN [node |-> <<it>>, fst |-> fst]
          ELSE TheOnly({[node |-> IF sub.node = <<>> THEN <<>> ELSE <<it>> \o sub.node,
                         fst |-> [fst EXCEPT ![it].m_content = sub.fst]] :
                        sub \in {FindFileNodeInFST(DropFirst(path, path_separator),
                                                   fst[it].m_content, create_if_not_exists)}})
          : it \in {FindChild(fst, name)}})

\* the loop of FindFilenameNodeInFST from child k on
RECURSIVE FindFilenameFrom(_, _, _)
FindFilenameFrom(filename, fst, k) ==
    IF k > Len(fst) THEN <<>>
    ELSE IF ~fst[k].is_file
    THEN TheOnly({IF result # <<>> THEN <<k>> \o result
                  ELSE FindFilenameFrom(filename, fst, k + 1) :
                  result \in {FindFilenameFrom(filename, fst[k].m_content, 1)}})
    ELSE IF CaseInsensitiveEquals(fst[k].m_filename, filename) THEN <<k>>
    ELSE FindFilenameFrom(filename, fst, k + 1)

\* a traversal that prefers the files of a folder to the files of its subfolders
RECURSIVE FindFilenameFilesFirst(_, _)
FindFilenameFilesFirst(filename, fst) ==
    LET files == {k \in 1..Len(fst) :
                    fst[k].is_file /\ CaseInsensitiveEquals(fst[k].m_filename, filename)}
        below == {k \in 1..Len(fst) :
                    ~fst[k].is_file /\ FindFilenameFilesFirst(filename, fst[k].m_content) # <<>>}
    IN  IF files # {} THEN <<CHOOSE k \in files : \A j \in files : k <= j>>
        ELSE IF below # {}
        THEN TheOnly({<<k>> \o FindFilenameFilesFirst(filename, fst[k].m_content) :
                      k \in {CHOOSE k \in below : \A j \in below : k <= j}})
        ELSE <<>>

FindFilenameNodeInFST(filename, fst) == FindFilenameFrom(filename, fst, 1)

\* the node a pointer designates
RECURSIVE NodeAt(_, _)
NodeAt(fst, node) ==
    IF Len(node) = 1 THEN fst[node[1]]
    ELSE NodeAt(fst[node[1]].m_content, Tail(node))

\* the tree with the designated node replaced
RECURSIVE ReplaceNodeAt(_, _, _)
ReplaceNodeAt(fst, node, new_node) ==
    IF Len(node) = 1 THEN [fst EXCEPT ![node[1]] = new_node]
    ELSE [fst EXCEPT ![node[1]].m_content =
              ReplaceNodeAt(fst[node[1]].m_content, Tail(node), new_node)]

MainDol == <<"m", "a", "i", "n", ".", "d", "o", "l">>

\* a tree is the root children list together with the dol node
Tree(fst, dol_node) == [fst |-> fst, dol_node |-> dol_node]

PatchTreeNode(loader, file, found) ==
    IF found.node = <<>> THEN found.fst
    ELSE ReplaceNodeAt(found.fst, found.node,
                       ApplyPatchToFileNode(loader, file, NodeAt(found.fst, found.node)))

\* a file patch without the special case of the main executable
ApplyFilePatchToFSTByName(loader, file, tree) ==
    IF file.m_disc # <<>> /\ file.m_disc[1] = "/"
    THEN Tree(TheOnly({PatchTreeNode(loader, file, found) :
                       found \in {FindFileNodeInFST(Tail(file.m_disc), tree.fst,
                                                    file.m_create)}}),
              tree.dol_node)
    ELSE Tree(TheOnly({PatchTreeNode(loader, file, [node |-> node, fst |-> tree.fst]) :
                       node \in {FindFilenameNodeInFST(file.m_disc, tree.fst)}}),
              tree.dol_node)

ApplyFilePatchToFST(loader, file, tree) ==
    IF file.m_disc # <<>> /\ file.m_disc[1] = "/"
    THEN Tree(TheOnly({PatchTreeNode(loader, file, found) :
                       found \in {FindFileNodeInFST(Tail(file.m_disc), tree.fst,
                                                    file.m_create)}}),
              tree.dol_node)
    ELSE IF CaseInsensitiveEquals(file.m_disc, MainDol)
    THEN Tree(tree.fst, ApplyPatchToFileNode(loader, file, tree.dol_node))
    ELSE Tree(TheOnly({PatchTreeNode(loader, file, [node |-> node, fst |-> tree.fst]) :
                       node \in {FindFilenameNodeInFST(file.m_disc, tree.fst)}}),
              tree.dol_node)

\* the lambda combine_paths of ApplyFolderPatchToFST
CombinePaths(a, b) ==
    IF a = <<>> THEN b
    ELSE IF b = <<>> THEN a
    ELSE (IF StringEndsWith(a, "/") THEN Prefix(a, Len(a) - 1) ELSE a)
         \o <<"/">>
         \o (IF StringBeginsWith(b, "/") THEN Tail(b) ELSE b)

\* the File record a folder patch builds for a child; the fields it does not
\* set keep their defaults
FileOfFolderChild(folder, child_disc_path, child_external_path) ==
    [m_disc |-> child_disc_path, m_external |-> child_external_path,
     m_offset |-> 0, m_fileoffset |-> 0, m_length |-> folder.m_length,
     m_resize |-> folder.m_resize, m_create |-> folder.m_create]

\* the loop over external_files from child k on, recursing into directories
RECURSIVE FolderPatchChildren(_, _, _, _, _, _, _)
FolderPatchChildren(loader, folder, tree, disc_path, external_path, external_files, k) ==
    IF k > Len(external_files) THEN tree
    ELSE
      LET child == external_files[k]
          child_disc_path == CombinePaths(disc_path, child.m_filename)
          child_external_path == CombinePaths(external_path, child.m_filename)
      IN  TheOnly({FolderPatchChildren(loader, folder, next, disc_path, external_path,
                                       external_files, k + 1) :
                   next \in {
                     IF child.m_is_directory
                     THEN IF folder.m_recursive
                          THEN FolderPatchChildren(loader, folder, tree, child_disc_path,
                                                   child_external_path,
                                                   GetFolderContents(loader, child_external_path),
                                                   1)
                          ELSE tree
                     ELSE ApplyFilePatchToFST(loader,
                                              FileOfFolderChild(folder, child_disc_path,
                                                                child_external_path),
                                              tree)}})

ApplyFolderPatchToFST(loader, folder, tree) ==
    TheOnly({FolderPatchChildren(loader, folder, tree, folder.m_disc, folder.m_external,
                                 external_files, 1) :
             external_files \in {GetFolderContents(loader, folder.m_external)}})

RECURSIVE ApplyFilePatches(_, _, _, _)
ApplyFilePatches(loader, file_patches, tree, k) ==
    IF k > Len(file_patches) THEN tree
    ELSE TheOnly({ApplyFilePatches(loader, file_patches, next, k + 1) :
                  next \in {ApplyFilePatchToFST(loader, file_patches[k], tree)}})

RECURSIVE ApplyFolderPatches(_, _, _, _)
ApplyFolderPatches(loader, folder_patches, tree, k) ==
    IF k > Len(folder_patches) THEN tree
    ELSE TheOnly({ApplyFolderPatches(loader, folder_patches, next, k + 1) :
                  next \in {ApplyFolderPatchToFST(loader, folder_patches[k], tree)}})

\* the loop over the patches from patch k on
RECURSIVE ApplyPatchesFrom(_, _, _, _)
ApplyPatchesFrom(loader, patches, tree, k) ==
    IF k > Len(patches) THEN tree
    ELSE TheOnly({ApplyPatchesFrom(loader, patches, next, k + 1) :
                  next \in {TheOnly({ApplyFolderPatches(loader, patches[k].m_folder_patches,
                                                        filed, 1) :
                                     filed \in {ApplyFilePatches(loader,
                                                                 patches[k].m_file_patches,
                                                                 tree, 1)}})}})

\* ApplyPatchesToFiles(patches, fst, dol_node); every patch uses the same loader
ApplyPatchesToFiles(loader, patches, tree) == ApplyPatchesFrom(loader, patches, tree, 1)

(***************************************************************************)
(* Memory patch engine.  Addresses are AddrBits wide (u32 in the source,   *)
(* arithmetic modulo AddrMod); HighBit stands for 0x80000000.  A memory    *)
(* cell holds a byte or Unmapped; an access to an unmapped cell fails.     *)
(* A state of the engine is [mem, log], log being the sequence of writes   *)
(* attempted and UnpatchRange calls made.                                  *)
(***************************************************************************)
AddrMod == 2 ^ AddrBits

HighBit == 2 ^ (AddrBits - 1)

Unmapped == -1

AddU32(a, b) == (a + b) % AddrMod

\* x | 0x80000000
OrHighBit(x) == IF x % AddrMod >= HighBit THEN x % AddrMod ELSE (x % AddrMod) + HighBit

\* PowerPC::HostTryReadU8
HostTryReadU8(mem, address) ==
    IF mem[address] = Unmapped THEN [ok |-> FALSE, value |-> 0]
    ELSE [ok |-> TRUE, value |-> mem[address]]

\* PowerPC::HostTryWriteU8: the write fails on an unmapped address
HostTryWriteU8(state, value, address) ==
    [mem |-> IF state.mem[address] = Unmapped THEN state.mem
             ELSE [state.mem EXCEPT ![address] = value],
     log |-> Append(state.log, <<"write", address, value, state.mem[address] # Unmapped>>)]

\* a hook invalidation that is left out
UnpatchSkipped(state, start, end) == state

\* HLE::UnpatchRange(start, end): the call is recorded
UnpatchRange(state, start, end) ==
    [state EXCEPT !.log = Append(state.log, <<"unpatch", start, end>>)]

\* a comparison that looks at the first byte only
MemoryMatchesFirstByte(mem, offset, value) ==
    value = <<>> \/ (/\ HostTryReadU8(mem, offset).ok
                     /\ HostTryReadU8(mem, offset).value = value[1])

MemoryMatchesAt(mem, offset, value) ==
    \A i \in 0..(Len(value) - 1) :
        /\ HostTryReadU8(mem, AddU32(offset, i)).ok
        /\ HostTryReadU8(mem, AddU32(offset, i)).value = value[i + 1]

\* for (u32 i = 0; i < size; ++i) PowerPC::HostTryWriteU8(value[i], offset + i), from i on
RECURSIVE WriteBytes(_, _, _, _)
WriteBytes(state, offset, value, i) ==
    IF i >= Len(value) THEN state
    ELSE TheOnly({WriteBytes(next, offset, value, i + 1) :
                  next \in {HostTryWriteU8(state, value[i + 1], AddU32(offset, i))}})

\* ApplyMemoryPatch(u32 offset, value, original)
ApplyMemoryPatch(state, offset, value, original) ==
    IF value = <<>> THEN state
    ELSE IF original # <<>> /\ ~MemoryMatchesAt(state.mem, offset, original) THEN state
    ELSE TheOnly({UnpatchRange(written, offset, AddU32(offset, Len(value))) :
                  written \in {WriteBytes(state, offset, value, 0)}})

GetMemoryPatchValue(loader, memory_patch) ==
    IF memory_patch.m_valuefile # <<>>
    THEN GetFileContents(loader, memory_patch.m_valuefile)
    ELSE memory_patch.m_value

\* ApplyMemoryPatch(patch, memory_patch)
ApplyDirectMemoryPatch(loader, memory_patch, state) ==
    IF memory_patch.m_offset = 0 THEN state
    ELSE ApplyMemoryPatch(state, OrHighBit(memory_patch.m_offset),
                          GetMemoryPatchValue(loader, memory_patch), memory_patch.m_original)

SubU32(a, b) == (a - b) % AddrMod

\* the loop bound length - (stride - 1) of ApplySearchMemoryPatch, in u32
SearchLoopBound(length, stride) == SubU32(length, SubU32(stride, 1))

\* entry of ApplySearchMemoryPatch: nothing to do without an original or with
\* m_align = 0, else the scan starts at i = 0
SearchEntry(memory_patch, ram_start, length) ==
    [ram_start |-> ram_start, length |-> length, i |-> 0,
     phase |-> IF memory_patch.m_original = <<>> \/ memory_patch.m_align = 0
               THEN "done" ELSE "scan"]

\* one evaluation of the loop condition of ApplySearchMemoryPatch and, when it
\* holds, one iteration of the body: [scan, state]
SearchIteration(loader, memory_patch, scan, state) ==
    IF ~(scan.i < SearchLoopBound(scan.length, memory_patch.m_align))
    THEN [scan |-> [scan EXCEPT !.phase = "done"], state |-> state]
    ELSE IF MemoryMatchesAt(state.mem, AddU32(scan.ram_start, scan.i), memory_patch.m_original)
    THEN [scan |-> [scan EXCEPT !.phase = "done"],
          state |-> ApplyMemoryPatch(state, AddU32(scan.ram_start, scan.i),
                                     GetMemoryPatchValue(loader, memory_patch), <<>>)]
    ELSE [scan |-> [scan EXCEPT !.i = AddU32(scan.i, memory_patch.m_align)], state |-> state]

(***************************************************************************)
(* Hook (ocarina) patch.  The branch encoding needs the full 32 bits, so   *)
(* here a u32 is the pair [hi, lo] of its 16-bit halves and memory is the  *)
(* byte sequence of a RAM window that starts at RamBase32; every address   *)
(* outside the window is unmapped.  Words are big-endian.  The loop        *)
(* counter i stays below the range length, which the model keeps small.    *)
(***************************************************************************)
Half == 2 ^ 16

U32(hi, lo) == [hi |-> hi, lo |-> lo]

Add32(a, b) ==
    [hi |-> (a.hi + b.hi + ((a.lo + b.lo) \div Half)) % Half, lo |-> (a.lo + b.lo) % Half]

Sub32(a, b) ==
    [hi |-> (a.hi - b.hi - (IF a.lo < b.lo THEN 1 ELSE 0)) % Half, lo |-> (a.lo - b.lo) % Half]

\* x | 0x80000000
OrHighBit32(x) == [x EXCEPT !.hi = IF x.hi >= 32768 THEN x.hi ELSE x.hi + 32768]

\* x & 0x03fffffc
AndBranchMask(x) == [hi |-> x.hi % 1024, lo |-> x.lo - (x.lo % 4)]

\* x | 0x48000000, for x within the branch mask
OrBranchOpcode(x) == [x EXCEPT !.hi = x.hi + 18432]

\* the blr instruction 0x4e800020
Blr == U32(20096, 32)

\* 0x80000000, where the RAM window of the model starts
RamBase32 == U32(32768, 0)

\* the 1-based position of an address in the RAM window, 0 when unmapped
RamIndex(bytes, address) ==
    LET d == Sub32(address, RamBase32)
    IN  IF d.hi = 0 /\ d.lo < Len(bytes) THEN d.lo + 1 ELSE 0

\* PowerPC::HostTryReadU8 on the RAM window
HostTryReadU8At(bytes, address) ==
    IF RamIndex(bytes, address) = 0 THEN [ok |-> FALSE, value |-> 0]
    ELSE [ok |-> TRUE, value |-> bytes[RamIndex(bytes, address)]]

\* MemoryMatchesAt on the RAM window
MemoryMatchesAt32(bytes, offset, value) ==
    \A i \in 0..(Len(value) - 1) :
        /\ HostTryReadU8At(bytes, Add32(offset, U32(0, i))).ok
        /\ HostTryReadU8At(bytes, Add32(offset, U32(0, i))).value = value[i + 1]

\* the four bytes of a word, most significant first
WordBytes(word) ==
    <<word.hi \div 256, word.hi % 256, word.lo \div 256, word.lo % 256>>

\* PowerPC::HostTryReadU32: fails unless the four bytes are mapped
HostTryReadU32(bytes, address) ==
    LET k == RamIndex(bytes, address)
    IN  IF k = 0 \/ k + 3 > Len(bytes) THEN [ok |-> FALSE, value |-> U32(0, 0)]
        ELSE [ok |-> TRUE,
              value |-> U32(bytes[k] * 256 + bytes[k + 1], bytes[k + 2] * 256 + bytes[k + 3])]

\* PowerPC::HostTryWriteU32: the write fails on an unmapped address
HostTryWriteU32(state, word, address) ==
    LET k == RamIndex(state.mem, address)
        ok == k # 0 /\ k + 3 <= Len(state.mem)
    IN  [mem |-> IF ok
                 THEN [j \in 1..Len(state.mem) |->
                          IF j \in k..(k + 3) THEN WordBytes(word)[j - k + 1] ELSE state.mem[j]]
                 ELSE state.mem,
         log |-> Append(state.log, <<"write32", address, word, ok>>)]

\* a jump that leaves the displacement unmasked
BranchUnmasked(target, blr_address) ==
    [hi |-> (Sub32(target, blr_address).hi % 1024) + 18432, lo |-> Sub32(target, blr_address).lo]

\* jmp = ((target - blr_address) & 0x03fffffc) | 0x48000000
BranchTo(target, blr_address) == OrBranchOpcode(AndBranchMask(Sub32(target, blr_address)))

\* the inner loop: from the pattern find the next blr and replace it
RECURSIVE ReplaceNextBlr(_, _, _, _, _)
ReplaceNextBlr(memory_patch, ram_start, length, i, state) ==
    IF ~(i < length) THEN state
    ELSE LET blr_address == Add32(ram_start, U32(0, i))
             blr == HostTryReadU32(state.mem, blr_address)
         IN  IF blr.ok /\ blr.value = Blr
             THEN UnpatchRange(HostTryWriteU32(state,
                                               BranchTo(OrHighBit32(memory_patch.m_offset),
                                                        blr_address),
                                               blr_address),
                               blr_address, Add32(blr_address, U32(0, 4)))
             ELSE ReplaceNextBlr(memory_patch, ram_start, length, i + 4, state)

\* an outer loop whose search for the return encoding starts at the range start
RECURSIVE FindPatternThenAnyBlr(_, _, _, _, _, _)
FindPatternThenAnyBlr(memory_patch, value, ram_start, length, i, state) ==
    IF ~(i < length) THEN state
    ELSE IF MemoryMatchesAt32(state.mem, Add32(ram_start, U32(0, i)), value)
    THEN ReplaceNextBlr(memory_patch, ram_start, length, 0, state)
    ELSE FindPatternThenAnyBlr(memory_patch, value, ram_start, length, i + 4, state)

\* the outer loop: first find the pattern
RECURSIVE FindPattern(_, _, _, _, _, _)
FindPattern(memory_patch, value, ram_start, length, i, state) ==
    IF ~(i < length) THEN state
    ELSE IF MemoryMatchesAt32(state.mem, Add32(ram_start, U32(0, i)), value)
    THEN ReplaceNextBlr(memory_patch, ram_start, length, i, state)
    ELSE FindPattern(memory_patch, value, ram_start, length, i + 4, state)

ApplyOcarinaMemoryPatch(loader, memory_patch, ram_start, length, state) ==
    IF memory_patch.m_offset = U32(0, 0) THEN state
    ELSE IF GetMemoryPatchValue(loader, memory_patch) = <<>> THEN state
    ELSE FindPattern(memory_patch, GetMemoryPatchValue(loader, memory_patch),
                     ram_start, length, 0, state)

(***************************************************************************)
(* The byte-writing patches on the RAM window, and the two phases that     *)
(* dispatch the memory patches of a patch list.  A memory patch carries    *)
(* the flags m_ocarina and m_search here; the loop counter of the scan is  *)
(* a full u32.                                                             *)
(***************************************************************************)
\* PowerPC::HostTryWriteU8 on the RAM window: the write fails on an unmapped address
HostTryWriteU8At(state, value, address) ==
    [mem |-> IF RamIndex(state.mem, address) = 0 THEN state.mem
             ELSE [state.mem EXCEPT ![RamIndex(state.mem, address)] = value],
     log |-> Append(state.log, <<"write", address, value, RamIndex(state.mem, address) # 0>>)]

\* for (u32 i = 0; i < size; ++i) PowerPC::HostTryWriteU8(value[i], offset + i), from i on
RECURSIVE WriteBytesAt(_, _, _, _)
WriteBytesAt(state, offset, value, i) ==
    IF i >= Len(value) THEN state
    ELSE TheOnly({WriteBytesAt(next, offset, value, i + 1) :
                  next \in {HostTryWriteU8At(state, value[i + 1], Add32(offset, U32(0, i)))}})

\* ApplyMemoryPatch(u32 offset, value, original) on the RAM window
ApplyMemoryPatchAt(state, offset, value, original) ==
    IF value = <<>> THEN state
    ELSE IF original # <<>> /\ ~MemoryMatchesAt32(state.mem, offset, original) THEN state
    ELSE TheOnly({UnpatchRange(written, offset, Add32(offset, U32(0, Len(value)))) :
                  written \in {WriteBytesAt(state, offset, value, 0)}})

\* ApplyMemoryPatch(patch, memory_patch) on the RAM window
ApplyDirectMemoryPatchAt(loader, memory_patch, state) ==
    IF memory_patch.m_offset = U32(0, 0) THEN state
    ELSE ApplyMemoryPatchAt(state, OrHighBit32(memory_patch.m_offset),
                            GetMemoryPatchValue(loader, memory_patch), memory_patch.m_original)

\* a < b in u32
Less32(a, b) == a.hi < b.hi \/ (a.hi = b.hi /\ a.lo < b.lo)

\* the scan loop of ApplySearchMemoryPatch from the counter i on
RECURSIVE SearchLoop(_, _, _, _, _, _)
SearchLoop(loader, memory_patch, ram_start, length, i, state) ==
    IF ~Less32(i, Sub32(length, Sub32(U32(0, memory_patch.m_align), U32(0, 1)))) THEN state
    ELSE IF MemoryMatchesAt32(state.mem, Add32(ram_start, i), memory_patch.m_original)
    THEN ApplyMemoryPatchAt(state, Add32(ram_start, i),
                            GetMemoryPatchValue(loader, memory_patch), <<>>)
    ELSE SearchLoop(loader, memory_patch, ram_start, length,
                    Add32(i, U32(0, memory_patch.m_align)), state)

\* ApplySearchMemoryPatch on the RAM window
ApplySearchMemoryPatch(loader, memory_patch, ram_start, length, state) ==
    IF memory_patch.m_original = <<>> \/ memory_patch.m_align = 0 THEN state
    ELSE SearchLoop(loader, memory_patch, ram_start, U32(0, length), U32(0, 0), state)

\* ::Memory::GetRamSize(): the RAM is the window
GetRamSize(bytes) == Len(bytes)

\* a general phase that leaves the hook flag unread
GeneralMemoryPatchAnyKind(loader, memory, state) ==
    IF memory.m_search
    THEN ApplySearchMemoryPatch(loader, memory, RamBase32, GetRamSize(state.mem), state)
    ELSE ApplyDirectMemoryPatchAt(loader, memory, state)

\* the body of the inner loop of ApplyGeneralMemoryPatches
GeneralMemoryPatch(loader, memory, state) ==
    IF memory.m_ocarina THEN state
    ELSE IF memory.m_search
    THEN ApplySearchMemoryPatch(loader, memory, RamBase32, GetRamSize(state.mem), state)
    ELSE ApplyDirectMemoryPatchAt(loader, memory, state)

\* the body of the inner loop of ApplyApploaderMemoryPatches
ApploaderMemoryPatch(loader, memory, ram_address, ram_length, state) ==
    IF ~memory.m_ocarina /\ ~memory.m_search THEN state
    ELSE IF memory.m_ocarina
    THEN ApplyOcarinaMemoryPatch(loader, memory, ram_address, ram_length, state)
    ELSE ApplySearchMemoryPatch(loader, memory, ram_address, ram_length, state)

\* for (const auto& memory : patch.m_memory_patches) of the general phase, from the k-th on
RECURSIVE GeneralMemoriesFrom(_, _, _, _)
GeneralMemoriesFrom(loader, memories, k, state) ==
    IF k > Len(memories) THEN state
    ELSE TheOnly({GeneralMemoriesFrom(loader, memories, k + 1, next) :
                  next \in {GeneralMemoryPatch(loader, memories[k], state)}})

\* for (const auto& patch : patches) of the general phase, from the k-th on
RECURSIVE GeneralPatchesFrom(_, _, _, _)
GeneralPatchesFrom(loader, patches, k, state) ==
    IF k > Len(patches) THEN state
    ELSE TheOnly({GeneralPatchesFrom(loader, patches, k + 1, next) :
                  next \in {GeneralMemoriesFrom(loader, patches[k].m_memory_patches, 1, state)}})

ApplyGeneralMemoryPatches(loader, patches, state) == GeneralPatchesFrom(loader, patches, 1, state)

\* for (const auto& memory : patch.m_memory_patches) of the apploader phase, from the k-th on
RECURSIVE ApploaderMemoriesFrom(_, _, _, _, _, _)
ApploaderMemoriesFrom(loader, memories, ram_address, ram_length, k, state) ==
    IF k > Len(memories) THEN state
    ELSE TheOnly({ApploaderMemoriesFrom(loader, memories, ram_address, ram_length, k + 1, next) :
                  next \in {ApploaderMemoryPatch(loader, memories[k], ram_address, ram_length,
                                                 state)}})

\* for (const auto& patch : patches) of the apploader phase, from the k-th on
RECURSIVE ApploaderPatchesFrom(_, _, _, _, _, _)
ApploaderPatchesFrom(loader, patches, ram_address, ram_length, k, state) ==
    IF k > Len(patches) THEN state
    ELSE TheOnly({ApploaderPatchesFrom(loader, patches, ram_address, ram_length, k + 1, next) :
                  next \in {ApploaderMemoriesFrom(loader, patches[k].m_memory_patches,
                                                  ram_address, ram_length, 1, state)}})

ApplyApploaderMemoryPatches(loader, patches, ram_address, ram_length, state) ==
    ApploaderPatchesFrom(loader, patches, ram_address, ram_length, 1, state)

(***************************************************************************)
(* The save differ.  A save is [blocks], a block is [m_block], the         *)
(* sequence of its bytes; a position in a block is the 0-based distance    *)
(* from begin(), end() being the block size.  A region is the pair         *)
(* <<start, end>>.                                                         *)
(***************************************************************************)
\* std::mismatch(lhsptr, lhsdata.end(), rhsptr): the first position from p on
\* where the blocks differ, else end()
RECURSIVE Mismatch(_, _, _)
Mismatch(lhsdata, rhsdata, p) ==
    IF p = Len(lhsdata) THEN p
    ELSE IF lhsdata[p + 1] # rhsdata[p + 1] THEN p
    ELSE Mismatch(lhsdata, rhsdata, p + 1)

\* while (lhsptr != lhsdata.end() && *lhsptr != *rhsptr) ++lhsptr, ++rhsptr
RECURSIVE Spin(_, _, _)
Spin(lhsdata, rhsdata, p) ==
    IF p # Len(lhsdata) /\ lhsdata[p + 1] # rhsdata[p + 1]
    THEN Spin(lhsdata, rhsdata, p + 1)
    ELSE p

\* while (lhsptr != lhsdata.end()) of the block lambda: the regions found
\* from the position p on are appended to regions
RECURSIVE DiffFrom(_, _, _, _)
DiffFrom(lhsdata, rhsdata, p, regions) ==
    IF p = Len(lhsdata) THEN regions
    ELSE LET start == Mismatch(lhsdata, rhsdata, p)
             stop == Spin(lhsdata, rhsdata, start)
         IN  DiffFrom(lhsdata, rhsdata, stop, Append(regions, <<start, stop>>))

\* the lambda of calculate_diffs: diffs.emplace_back() and the regions of the block pair
DiffBlocks(diffs, lhsblock, rhsblock) ==
    Append(diffs, DiffFrom(lhsblock.m_block, rhsblock.m_block, 0, <<>>))

\* for_all(func, container, cs) with the block lambda, from the count-th
\* element on: it stops at the end of the first container and never looks at
\* the end of cs.  Behind the end of cs the iterator reads memory that is not
\* part of cs: the read faults or yields the bytes behind.blocks holds there.
RECURSIVE for_all(_, _, _, _, _)
for_all(diffs, container, cs, count, behind) ==
    IF count = Len(container) THEN [crashed |-> FALSE, diffs |-> diffs]
    ELSE IF count < Len(cs)
    THEN for_all(DiffBlocks(diffs, container[count + 1], cs[count + 1]),
                 container, cs, count + 1, behind)
    ELSE IF behind.fault THEN [crashed |-> TRUE, diffs |-> <<>>]
    ELSE for_all(DiffBlocks(diffs, container[count + 1], behind.blocks[count + 1]),
                 container, cs, count + 1, behind)

calculate_diffs(lhscard, rhscard, behind) ==
    for_all(<<>>, lhscard.blocks, rhscard.blocks, 0, behind)

\* end - start < minimum_size: the int is converted to size_t, a negative
\* minimum_size becomes a number above every size
SizeLess(size, minimum_size) == minimum_size < 0 \/ size < minimum_size

\* base + chunk_size > data.end() ? data.end() : base + chunk_size
Finish(data, base, chunk_size) ==
    IF base + chunk_size > Len(data) THEN Len(data) ELSE base + chunk_size

\* std::generate(base, finish, rand_byte): the bytes are the values drawn
Generate(data, base, finish, bytes) ==
    [p \in 1..Len(data) |-> IF base < p /\ p <= finish THEN bytes[p - base] ELSE data[p]]

\* for (auto& [start, end] : regions) of scramble_diffs, from the k-th region
\* on: the set of outcomes [data, mutation_count, crashed] over the random
\* offsets in [start, end] and the random bytes.  With chunk_size < 0 finish
\* lies before base and std::generate runs off the block.
RECURSIVE ScrambleRegions(_, _, _, _, _, _, _, _)
ScrambleRegions(data, regions, k, mutation_count, mutations, chunk_size, minimum_size, rand) ==
    IF k > Len(regions)
    THEN {[data |-> data, mutation_count |-> mutation_count, crashed |-> FALSE]}
    ELSE IF SizeLess(regions[k][2] - regions[k][1], minimum_size)
    THEN ScrambleRegions(data, regions, k + 1, mutation_count, mutations, chunk_size,
                         minimum_size, rand)
    ELSE IF ~(mutation_count < mutations)
    THEN {[data |-> data, mutation_count |-> mutation_count, crashed |-> FALSE]}
    ELSE IF chunk_size < 0
    THEN {[data |-> data, mutation_count |-> mutation_count, crashed |-> TRUE]}
    ELSE UNION {UNION {ScrambleRegions(Generate(data, base, Finish(data, base, chunk_size), bytes),
                                       regions, k + 1, mutation_count + 1, mutations,
                                       chunk_size, minimum_size, rand) :
                         bytes \in [1..(Finish(data, base, chunk_size) - base) -> rand]} :
                  base \in regions[k][1]..regions[k][2]}

\* for_all with the counting lambda of scramble_diffs over card.blocks and
\* diffs, from the block iteration on: the set of outcomes [blocks, crashed]
RECURSIVE ScrambleFrom(_, _, _, _, _, _, _, _, _)
ScrambleFrom(blocks, diffs, iteration, mutation_count, targets, mutations, chunk_size, minimum_size, rand) ==
    IF iteration = Len(blocks) THEN {[blocks |-> blocks, crashed |-> FALSE]}
    ELSE IF mutation_count >= mutations \/ (targets # {} /\ iteration \notin targets)
    THEN ScrambleFrom(blocks, diffs, iteration + 1, mutation_count, targets, mutations,
                      chunk_size, minimum_size, rand)
    ELSE UNION {IF r.crashed THEN {[blocks |-> blocks, crashed |-> TRUE]}
                ELSE ScrambleFrom([blocks EXCEPT ![iteration + 1] = [m_block |-> r.data]],
                                  diffs, iteration + 1, r.mutation_count, targets, mutations,
                                  chunk_size, minimum_size, rand) :
                  r \in ScrambleRegions(blocks[iteration + 1].m_block, diffs[iteration + 1], 1,
                                        mutation_count, mutations, chunk_size, minimum_size,
                                        rand)}

\* the saves scramble_diffs can leave, or a crash
scramble_diffs(card, diffs, targets, mutations, chunk_size, minimum_size, rand) ==
    {[card |-> [blocks |-> after.blocks], crashed |-> after.crashed] :
        after \in ScrambleFrom(card.blocks, diffs, 0, 0, targets, mutations, chunk_size,
                               minimum_size, rand)}

(***************************************************************************)
(* State.  c*: one call of MakeAbsoluteFromRelative; f*: one file node     *)
(* under a sequence of ApplyPatchToFile calls; t*: a tree under one call   *)
(* of ApplyPatchesToFiles; m*: a memory image under one memory patch,      *)
(* mScan being the position of the scan loop of a search patch; h*: a RAM  *)
(* window under one hook patch; lCalls: the lookups made on tTree; r*: a    *)
(* file node read back through its range index; d*: two saves under      *)
(* calculate_diffs and scramble_diffs, dStage being the position in main.  *)
(***************************************************************************)
VARIABLES cPath, cSd, cPr, cWalk, fNode, fBefore, fLast, fRepeat, fCalls,
          tTree, tBefore, tPatches, tDone, mMem, mBefore, mLog, mLast, mDone, mScan,
          hMem, hBefore, hLog, hLast, hDone, lCalls, rNode, rIndex, rData, rDone,
          dLhs, dRhs, dDiffs, dStage

canonVars == <<cPath, cSd, cPr, cWalk>>

fileVars == <<fNode, fBefore, fLast, fRepeat, fCalls>>

treeVars == <<tTree, tBefore, tPatches, tDone>>

memVars == <<mMem, mBefore, mLog, mLast, mDone, mScan>>

hookVars == <<hMem, hBefore, hLog, hLast, hDone>>

lookupVars == <<lCalls>>

readVars == <<rNode, rIndex, rData, rDone>>

diffVars == <<dLhs, dRhs, dDiffs, dStage>>

vars == <<canonVars, fileVars, treeVars, memVars, hookVars, lookupVars, readVars, diffVars>>

CanonIdle == [work |-> <<>>, result |-> <<>>, depth |-> 0, status |-> "idle"]

CanonUnused ==
    /\ cPath = <<>>
    /\ cSd = <<>>
    /\ cPr = <<>>
    /\ cWalk = CanonIdle

NoCall ==
    [external |-> <<>>, offset |-> 0, fileoffset |-> 0, length |-> 0, resize |-> FALSE,
     called |-> FALSE]

EmptyFile == FileNode(<<"f">>, 0, <<>>)

FileUnused ==
    /\ fNode = EmptyFile
    /\ fBefore = EmptyFile
    /\ fLast = NoCall
    /\ fRepeat = FALSE
    /\ fCalls = 0

EmptyTree == Tree(<<>>, EmptyFile)

TreeUnused ==
    /\ tTree = EmptyTree
    /\ tBefore = EmptyTree
    /\ tPatches = <<>>
    /\ tDone = FALSE

NoMemory == [a \in 0..(AddrMod - 1) |-> Unmapped]

NoMemoryPatch ==
    [m_offset |-> 0, m_value |-> <<>>, m_valuefile |-> <<>>, m_original |-> <<>>,
     m_align |-> 1]

NoScan == [ram_start |-> 0, length |-> 0, i |-> 0, phase |-> "idle"]

MemUnused ==
    /\ mMem = NoMemory
    /\ mBefore = NoMemory
    /\ mLog = <<>>
    /\ mLast = NoMemoryPatch
    /\ mDone = FALSE
    /\ mScan = NoScan

NoHook == [patch |-> NoMemoryPatch, ram_start |-> U32(0, 0), length |-> 0]

LookupUnused == lCalls = <<>>

ReadUnused ==
    /\ rNode = EmptyFile
    /\ rIndex = <<>>
    /\ rData = <<>>
    /\ rDone = FALSE

NoSave == [blocks |-> <<>>]

DiffUnused ==
    /\ dLhs = NoSave
    /\ dRhs = NoSave
    /\ dDiffs = <<>>
    /\ dStage = "idle"

HookUnused ==
    /\ hMem = <<>>
    /\ hBefore = <<>>
    /\ hLog = <<>>
    /\ hLast = NoHook
    /\ hDone = FALSE

(***************************************************************************)
(* Specification of the path sandbox resolver.                             *)
(***************************************************************************)
CanonInit ==
    /\ cPath \in RelPaths
    /\ cSd \in RootChoices
    /\ cPr \in RootChoices
    /\ cWalk = CanonIdle
    /\ FileUnused
    /\ TreeUnused
    /\ MemUnused
    /\ HookUnused
    /\ LookupUnused
    /\ ReadUnused
    /\ DiffUnused

\* entry of MakeAbsoluteFromRelative up to the first loop test
CanonStart ==
    /\ cWalk.status = "idle"
    /\ cWalk' = WalkStart(cPath, cSd, cPr)
    /\ UNCHANGED <<cPath, cSd, cPr, fileVars, treeVars, memVars, hookVars, lookupVars, readVars, diffVars>>

\* one loop iteration, ending in the next iteration, a return or a failure
CanonStep ==
    /\ cWalk.status = "walk"
    /\ cWalk' = WalkStep(cWalk)
    /\ UNCHANGED <<cPath, cSd, cPr, fileVars, treeVars, memVars, hookVars, lookupVars, readVars, diffVars>>

CanonNext == CanonStart \/ CanonStep

CanonSpec == CanonInit /\ [][CanonNext]_vars

(***************************************************************************)
(* Specification of the splice builder: a file node that is empty or       *)
(* gap-free receives up to MaxCalls calls of ApplyPatchToFile.             *)
(***************************************************************************)
InitialFiles ==
    { EmptyFile,
      FileNode(<<"f">>, 4, <<BuilderContentSource(0, 4, ContentVolume("vol", 8))>>),
      FileNode(<<"f">>, 4, <<BuilderContentSource(0, 2, ContentFile(<<"/", "b">>, 0)),
                             BuilderContentSource(2, 2, ContentMemory("buf", 1))>>),
      FileNode(<<"f">>, 3, <<BuilderContentSource(0, 1, ContentPartition("part", 5)),
                             BuilderContentSource(1, 2, ContentFixedByte(7))>>) }

\* "x" is a 2-byte file below the patch root, "m" does not exist and
\* "../../e" is a file outside the sandbox
ExternalNames == {<<"x">>, <<"m">>, <<".", ".", "/", ".", ".", "/", "e">>}

FileInit ==
    /\ fNode \in InitialFiles
    /\ fBefore = fNode
    /\ fLast = NoCall
    /\ fRepeat = FALSE
    /\ fCalls = 0
    /\ CanonUnused
    /\ TreeUnused
    /\ MemUnused
    /\ HookUnused
    /\ LookupUnused
    /\ ReadUnused
    /\ DiffUnused

Call(external, offset, fileoffset, length, resize) ==
    [external |-> external, offset |-> offset, fileoffset |-> fileoffset,
     length |-> length, resize |-> resize, called |-> TRUE]

\* the calls tried: the full grid for the available resource, the corners of
\* the grid for the unavailable ones
PatchCalls ==
    {Call(<<"x">>, o, e, l, r) :
        o \in 0..MaxPatchOffset, e \in 0..MaxExternalOffset, l \in 0..MaxPatchLength,
        r \in BOOLEAN}
    \cup
    {Call(n, o, 0, l, r) :
        n \in ExternalNames \ {<<"x">>}, o \in {0, MaxPatchOffset}, l \in {0, 1},
        r \in BOOLEAN}

\* one call of ApplyPatchToFile on the node
FileApplyPatch ==
    /\ fCalls < MaxCalls
    /\ \E call \in PatchCalls :
         /\ fNode' = ApplyPatchToFile(Loader, fNode, call.external, call.offset,
                                      call.fileoffset, call.length, call.resize)
         /\ fBefore' = fNode
         /\ fLast' = call
         /\ fRepeat' = (call = fLast)
    /\ fCalls' = fCalls + 1
    /\ UNCHANGED <<canonVars, treeVars, memVars, hookVars, lookupVars, readVars, diffVars>>

FileNext == FileApplyPatch

FileSpec == FileInit /\ [][FileNext]_vars

(***************************************************************************)
(* Specification of the splice builder on files with gaps: the segment     *)
(* list is sorted and non-overlapping but does not cover the whole file.   *)
(***************************************************************************)
\* a gap in the middle, and a gap at the start
GapFiles ==
    { FileNode(<<"f">>, 4, <<BuilderContentSource(0, 1, ContentVolume("vol", 8)),
                             BuilderContentSource(3, 1, ContentVolume("vol", 11))>>),
      FileNode(<<"f">>, 4, <<BuilderContentSource(2, 2, ContentVolume("vol", 10))>>) }

GapInit ==
    /\ fNode \in GapFiles
    /\ fBefore = fNode
    /\ fLast = NoCall
    /\ fRepeat = FALSE
    /\ fCalls = 0
    /\ CanonUnused
    /\ TreeUnused
    /\ MemUnused
    /\ HookUnused
    /\ LookupUnused
    /\ ReadUnused
    /\ DiffUnused

GapSpec == GapInit /\ [][FileNext]_vars

(***************************************************************************)
(* Specification of the tree resolver: one call of ApplyPatchesToFiles on  *)
(* a tree with its dol node.                                               *)
(***************************************************************************)
VolumeFile(name, size, offset) ==
    FileNode(name, size, <<BuilderContentSource(0, size, ContentVolume("vol", offset))>>)

\* d/f, d/e/h and g; the second tree also holds a file named Main.dol
InitialTrees ==
    { Tree(<<FolderNode(<<"d">>, <<VolumeFile(<<"f">>, 4, 16),
                                   FolderNode(<<"e">>, <<VolumeFile(<<"h">>, 2, 32)>>)>>),
             VolumeFile(<<"g">>, 2, 48)>>,
           VolumeFile(MainDol, 4, 0)),
      Tree(<<FolderNode(<<"d">>, <<VolumeFile(<<"F">>, 4, 16)>>),
             VolumeFile(<<"M", "a", "i", "n", ".", "d", "o", "l">>, 2, 48),
             VolumeFile(<<"h">>, 2, 32)>>,
           VolumeFile(MainDol, 4, 0)) }

File(disc, external, offset, fileoffset, length, resize, create) ==
    [m_disc |-> disc, m_external |-> external, m_offset |-> offset,
     m_fileoffset |-> fileoffset, m_length |-> length, m_resize |-> resize,
     m_create |-> create]

Folder(disc, external, recursive, resize, create, length) ==
    [m_disc |-> disc, m_external |-> external, m_recursive |-> recursive,
     m_resize |-> resize, m_create |-> create, m_length |-> length]

Patch(file_patches, folder_patches) ==
    [m_file_patches |-> file_patches, m_folder_patches |-> folder_patches]

\* existing files in both letter cases, new files, new folders, paths of the
\* wrong kind, bare file names and the main executable
DiscPaths ==
    { <<"/", "d", "/", "f">>, <<"/", "D", "/", "F">>, <<"/", "d", "/", "n">>,
      <<"/", "n", "/", "f">>, <<"/", "d">>, <<"/", "d", "/", "f", "/", "x">>,
      <<"h">>, <<"H">>, <<"z">>, MainDol,
      <<"M", "A", "I", "N", ".", "D", "O", "L">> }

FilePatches ==
    {File(disc, external, 0, 0, 0, FALSE, create) :
        disc \in DiscPaths, external \in {<<"x">>, <<"m">>}, create \in BOOLEAN}
    \cup
    {File(<<"/", "d", "/", "f">>, <<"x">>, offset, 1, length, resize, FALSE) :
        offset \in {2, 5}, length \in {0, 1}, resize \in BOOLEAN}
    \cup
    {File(disc, <<".", ".", "/", ".", ".", "/", "e">>, 0, 0, 0, FALSE, create) :
        disc \in {<<"/", "d", "/", "f">>, <<"/", "d", "/", "n">>}, create \in BOOLEAN}

\* "k" is a directory with a file and a subdirectory, "m" does not exist
FolderPatches ==
    {Folder(disc, external, recursive, FALSE, create, 0) :
        disc \in {<<"/", "d">>, <<>>}, external \in {<<"k">>, <<"m">>},
        recursive \in BOOLEAN, create \in BOOLEAN}

PatchLists ==
    {<<Patch(<<a>>, <<>>)>> : a \in FilePatches}
    \cup {<<Patch(<<a, b>>, <<>>)>> : a \in FilePatches, b \in FilePatches}
    \cup {<<Patch(<<>>, <<o>>)>> : o \in FolderPatches}
    \cup {<<Patch(<<a>>, <<o>>)>> : a \in FilePatches, o \in FolderPatches}
    \cup {<<Patch(<<>>, <<o>>), Patch(<<a>>, <<>>)>> : a \in FilePatches, o \in FolderPatches}

TreeInit ==
    /\ tTree \in InitialTrees
    /\ tBefore = tTree
    /\ tPatches = <<>>
    /\ tDone = FALSE
    /\ CanonUnused
    /\ FileUnused
    /\ MemUnused
    /\ HookUnused
    /\ LookupUnused
    /\ ReadUnused
    /\ DiffUnused

\* one call of ApplyPatchesToFiles
TreeApplyPatches ==
    /\ ~tDone
    /\ \E patches \in PatchLists :
         /\ tTree' = ApplyPatchesToFiles(Loader, patches, tTree)
         /\ tPatches' = patches
    /\ tBefore' = tTree
    /\ tDone' = TRUE
    /\ UNCHANGED <<canonVars, fileVars, memVars, hookVars, lookupVars, readVars, diffVars>>

TreeNext == TreeApplyPatches

TreeSpec == TreeInit /\ [][TreeNext]_vars

(***************************************************************************)
(* Specification of the two lookups: up to MaxCalls calls of               *)
(* FindFileNodeInFST and FindFilenameNodeInFST in a row on one tree.       *)
(***************************************************************************)
\* d/h/g, d/H, h and G: a folder and two files answer to the name h
NestedTree ==
    Tree(<<FolderNode(<<"d">>, <<FolderNode(<<"h">>, <<VolumeFile(<<"g">>, 2, 16)>>),
                                 VolumeFile(<<"H">>, 2, 32)>>),
           VolumeFile(<<"h">>, 2, 48),
           VolumeFile(<<"G">>, 2, 64)>>,
         VolumeFile(MainDol, 4, 0))

LookupTrees == InitialTrees \cup {NestedTree}

\* paths below the root: existing files in both letter cases, files and
\* folders to create, paths of the wrong kind and the empty path
LookupPaths ==
    { <<"d", "/", "f">>, <<"D", "/", "F">>, <<"d", "/", "n">>, <<"D", "/", "N">>,
      <<"n", "/", "f">>, <<"n", "/", "o", "/", "f">>, <<"N", "/", "O", "/", "F">>,
      <<"d", "/", "e", "/", "h">>, <<"d">>, <<"d", "/", "e">>, <<"d", "/", "h">>,
      <<"d", "/", "f", "/", "x">>, <<"g", "/", "x", "/", "y">>, <<"g">>, <<>> }

LookupNames == { <<"h">>, <<"H">>, <<"g">>, <<"f">>, <<"d">>, <<"e">>, <<"z">> }

FileLookup(path, create, found, before) ==
    [op |-> "file", path |-> path, create |-> create, node |-> found.node,
     before |-> before, after |-> found.fst]

FilenameLookup(filename, node, before) ==
    [op |-> "filename", path |-> filename, create |-> FALSE, node |-> node,
     before |-> before, after |-> before]

LookupInit ==
    /\ tTree \in LookupTrees
    /\ tBefore = tTree
    /\ tPatches = <<>>
    /\ tDone = FALSE
    /\ lCalls = <<>>
    /\ CanonUnused
    /\ FileUnused
    /\ MemUnused
    /\ HookUnused
    /\ ReadUnused
    /\ DiffUnused

\* one call of FindFileNodeInFST on the root list
LookupFile ==
    /\ Len(lCalls) < MaxCalls
    /\ \E path \in LookupPaths, create \in BOOLEAN :
         \E found \in {FindFileNodeInFST(path, tTree.fst, create)} :
           /\ tTree' = Tree(found.fst, tTree.dol_node)
           /\ lCalls' = Append(lCalls, FileLookup(path, create, found, tTree.fst))
    /\ tBefore' = tTree
    /\ UNCHANGED <<tPatches, tDone, canonVars, fileVars, memVars, hookVars, readVars, diffVars>>

\* one call of FindFilenameNodeInFST on the root list
LookupFilename ==
    /\ Len(lCalls) < MaxCalls
    /\ \E filename \in LookupNames :
         lCalls' = Append(lCalls, FilenameLookup(filename,
                                                 FindFilenameNodeInFST(filename, tTree.fst),
                                                 tTree.fst))
    /\ tBefore' = tTree
    /\ UNCHANGED <<tTree, tPatches, tDone, canonVars, fileVars, memVars, hookVars, readVars, diffVars>>

LookupNext == LookupFile \/ LookupFilename

LookupSpec == LookupInit /\ [][LookupNext]_vars

(***************************************************************************)
(* Specification of the round trip: a file node of buffer and fill         *)
(* segments receives up to MaxCalls calls of ApplyPatchToFile, is frozen   *)
(* into a range index and read back in full.                               *)
(***************************************************************************)
ReadFiles ==
    { EmptyFile,
      FileNode(<<"f">>, 4, <<BuilderContentSource(0, 4, ContentMemory("buf", 0))>>),
      FileNode(<<"f">>, 4, <<BuilderContentSource(0, 2, ContentMemory("buf", 1)),
                             BuilderContentSource(2, 2, ContentFixedByte(9))>>),
      FileNode(<<"f">>, 3, <<BuilderContentSource(0, 1, ContentFixedByte(9)),
                             BuilderContentSource(1, 2, ContentMemory("buf", 3))>>),
      FileNode(<<"f">>, 4, <<BuilderContentSource(0, 2, ContentMemory("buf", 2)),
                             BuilderContentSource(2, 0, ContentFixedByte(9)),
                             BuilderContentSource(2, 2, ContentMemory("buf", 0))>>) }

ReadInit ==
    /\ fNode \in ReadFiles
    /\ fBefore = fNode
    /\ fLast = NoCall
    /\ fRepeat = FALSE
    /\ fCalls = 0
    /\ rNode = EmptyFile
    /\ rIndex = <<>>
    /\ rData = <<>>
    /\ rDone = FALSE
    /\ CanonUnused
    /\ TreeUnused
    /\ MemUnused
    /\ HookUnused
    /\ LookupUnused
    /\ DiffUnused

\* one call of ApplyPatchToFile on the node, before it is frozen
ReadPatch ==
    /\ ~rDone
    /\ fCalls < MaxCalls
    /\ \E call \in PatchCalls :
         fNode' = ApplyPatchToFile(Loader, fNode, call.external, call.offset,
                                   call.fileoffset, call.length, call.resize)
    /\ fCalls' = fCalls + 1
    /\ UNCHANGED <<fBefore, fLast, fRepeat, canonVars, treeVars, memVars, hookVars, lookupVars, readVars, diffVars>>

\* the node is frozen and the range [0, m_size) is read through the index
ReadWhole ==
    /\ ~rDone
    /\ rNode' = fNode
    /\ rIndex' = Freeze(fNode)
    /\ rData' = Read(Freeze(fNode), 0, fNode.m_size)
    /\ rDone' = TRUE
    /\ UNCHANGED <<canonVars, fileVars, treeVars, memVars, hookVars, lookupVars, diffVars>>

ReadNext == ReadPatch \/ ReadWhole

ReadSpec == ReadInit /\ [][ReadNext]_vars

(***************************************************************************)
(* Specification of the file patch offset: one file patch with a byte      *)
(* offset of any residue modulo 4 on a file node.                          *)
(***************************************************************************)
AlignFiles ==
    { EmptyFile,
      FileNode(<<"f">>, 4, <<BuilderContentSource(0, 4, ContentVolume("vol", 8))>>),
      FileNode(<<"f">>, 6, <<BuilderContentSource(0, 2, ContentVolume("vol", 8)),
                             BuilderContentSource(2, 4, ContentFixedByte(7))>>) }

AlignPatches ==
    {File(<<"/", "f">>, <<"x">>, offset, fileoffset, length, resize, FALSE) :
        offset \in 0..MaxByteOffset, fileoffset \in 0..MaxExternalOffset,
        length \in 0..MaxPatchLength, resize \in BOOLEAN}

AlignInit ==
    /\ fNode \in AlignFiles
    /\ fBefore = fNode
    /\ fLast = NoCall
    /\ fRepeat = FALSE
    /\ fCalls = 0
    /\ CanonUnused
    /\ TreeUnused
    /\ MemUnused
    /\ HookUnused
    /\ LookupUnused
    /\ ReadUnused
    /\ DiffUnused

\* one call of ApplyPatchToFile(patch, file_patch, file_node)
AlignApply ==
    /\ fCalls = 0
    /\ \E file_patch \in AlignPatches :
         /\ fNode' = ApplyPatchToFileNode(Loader, file_patch, fNode)
         /\ fLast' = Call(file_patch.m_external, file_patch.m_offset, file_patch.m_fileoffset,
                          file_patch.m_length, file_patch.m_resize)
    /\ fBefore' = fNode
    /\ fCalls' = 1
    /\ UNCHANGED <<fRepeat, canonVars, treeVars, memVars, hookVars, lookupVars, readVars, diffVars>>

AlignNext == AlignApply

AlignSpec == AlignInit /\ [][AlignNext]_vars

(***************************************************************************)
(* Specification of the memory patch engine: one direct memory patch on a  *)
(* memory image whose RAM occupies the RamSize addresses from HighBit on.  *)
(***************************************************************************)
MemoryImages ==
    {[a \in 0..(AddrMod - 1) |->
        IF a >= HighBit /\ a < HighBit + RamSize THEN ram[a - HighBit + 1] ELSE Unmapped] :
     ram \in [1..RamSize -> {0, 1}]}

Memory(offset, value, valuefile, original, align) ==
    [m_offset |-> offset, m_value |-> value, m_valuefile |-> valuefile,
     m_original |-> original, m_align |-> align]

MemoryPatches ==
    {Memory(offset, value, valuefile, original, 1) :
        offset \in 0..(AddrMod - 1),
        value \in SeqsUpTo({1, 2}, MaxValueLen),
        valuefile \in {<<>>, <<"x">>, <<"m">>},
        original \in SeqsUpTo({0, 1}, MaxValueLen)}

MemInit ==
    /\ mMem \in MemoryImages
    /\ mBefore = mMem
    /\ mLog = <<>>
    /\ mLast = NoMemoryPatch
    /\ mDone = FALSE
    /\ mScan = NoScan
    /\ CanonUnused
    /\ FileUnused
    /\ TreeUnused
    /\ HookUnused
    /\ LookupUnused
    /\ ReadUnused
    /\ DiffUnused

\* one call of ApplyMemoryPatch(patch, memory_patch)
MemApplyDirect ==
    /\ ~mDone
    /\ mScan.phase = "idle"
    /\ \E memory_patch \in MemoryPatches :
         LET after == ApplyDirectMemoryPatch(Loader, memory_patch, [mem |-> mMem, log |-> <<>>])
         IN  /\ mMem' = after.mem
             /\ mLog' = after.log
             /\ mLast' = memory_patch
    /\ mBefore' = mMem
    /\ mDone' = TRUE
    /\ UNCHANGED <<canonVars, fileVars, treeVars, mScan, hookVars, lookupVars, readVars, diffVars>>

MemNext == MemApplyDirect

MemSpec == MemInit /\ [][MemNext]_vars

(***************************************************************************)
(* Specification of the search patch: one call of ApplySearchMemoryPatch,  *)
(* the scan loop taken one iteration at a time.                            *)
(***************************************************************************)
ScanStarts == {HighBit, HighBit + 1}

ScanLengths == 0..RamSize

SearchPatches ==
    {Memory(0, value, <<>>, original, align) :
        value \in SeqsUpTo({2}, MaxValueLen),
        original \in SeqsUpTo({0, 1}, MaxValueLen),
        align \in 0..MaxStride}

SearchInit ==
    /\ mMem \in MemoryImages
    /\ mBefore = mMem
    /\ mLog = <<>>
    /\ mLast = NoMemoryPatch
    /\ mDone = FALSE
    /\ mScan = NoScan
    /\ CanonUnused
    /\ FileUnused
    /\ TreeUnused
    /\ HookUnused
    /\ LookupUnused
    /\ ReadUnused
    /\ DiffUnused

\* the call of ApplySearchMemoryPatch up to the first test of the loop condition
SearchStart ==
    /\ mScan.phase = "idle"
    /\ ~mDone
    /\ \E memory_patch \in SearchPatches, ram_start \in ScanStarts, length \in ScanLengths :
         /\ mLast' = memory_patch
         /\ mScan' = SearchEntry(memory_patch, ram_start, length)
         /\ mDone' = (SearchEntry(memory_patch, ram_start, length).phase = "done")
    /\ UNCHANGED <<canonVars, fileVars, treeVars, mMem, mBefore, mLog, hookVars, lookupVars, readVars, diffVars>>

\* the loop condition and one iteration of the scan loop
SearchStep ==
    /\ mScan.phase = "scan"
    /\ LET after == SearchIteration(Loader, mLast, mScan, [mem |-> mMem, log |-> mLog])
       IN  /\ mScan' = after.scan
           /\ mMem' = after.state.mem
           /\ mLog' = after.state.log
           /\ mDone' = (after.scan.phase = "done")
    /\ UNCHANGED <<canonVars, fileVars, treeVars, mBefore, mLast, hookVars, lookupVars, readVars, diffVars>>

SearchNext == SearchStart \/ SearchStep

SearchSpec == SearchInit /\ [][SearchNext]_vars

\* a scan that was entered runs on: the loop is not interrupted
SearchTermination == SearchInit /\ [][SearchNext]_vars /\ WF_vars(SearchStep)

(***************************************************************************)
(* Specification of the byte-writing patches: on a memory image either one *)
(* direct patch or one search patch is applied.                            *)
(***************************************************************************)
WriteNext == MemApplyDirect \/ SearchStart \/ SearchStep

WriteSpec == MemInit /\ [][WriteNext]_vars

(***************************************************************************)
(* Specification of the hook patch: one call of ApplyOcarinaMemoryPatch on *)
(* a RAM window of HookWords words.                                        *)
(***************************************************************************)
\* li r3, 1 (0x38600001) and nop (0x60000000)
Li == U32(14432, 1)

Nop == U32(24576, 0)

RECURSIVE ImageOf(_)
ImageOf(words) == IF words = <<>> THEN <<>> ELSE WordBytes(Head(words)) \o ImageOf(Tail(words))

HookImages == {ImageOf(words) : words \in [1..HookWords -> {Blr, Nop, Li}]}

\* 0 (no target), 0x00000004, 0x00001800, 0x81234568 and 0x4c000002
HookTargets == {U32(0, 0), U32(0, 4), U32(0, 6144), U32(33059, 17768), U32(19456, 2)}

HookValues ==
    {<<>>, <<56>>, <<1>>, WordBytes(Li), WordBytes(Blr), WordBytes(Li) \o WordBytes(Blr)}

HookPatches ==
    {Memory(offset, value, valuefile, <<>>, 1) :
        offset \in HookTargets, value \in HookValues, valuefile \in {<<>>, <<"m">>}}

HookStarts == {RamBase32, Add32(RamBase32, U32(0, 4))}

HookLengths == {0, 4, 6, 4 * HookWords}

HookInit ==
    /\ hMem \in HookImages
    /\ hBefore = hMem
    /\ hLog = <<>>
    /\ hLast = NoHook
    /\ hDone = FALSE
    /\ CanonUnused
    /\ FileUnused
    /\ TreeUnused
    /\ MemUnused
    /\ LookupUnused
    /\ ReadUnused
    /\ DiffUnused

\* one call of ApplyOcarinaMemoryPatch
HookApply ==
    /\ ~hDone
    /\ \E memory_patch \in HookPatches, ram_start \in HookStarts, length \in HookLengths :
         LET after == ApplyOcarinaMemoryPatch(Loader, memory_patch, ram_start, length,
                                              [mem |-> hMem, log |-> <<>>])
         IN  /\ hMem' = after.mem
             /\ hLog' = after.log
             /\ hLast' = [patch |-> memory_patch, ram_start |-> ram_start, length |-> length]
    /\ hBefore' = hMem
    /\ hDone' = TRUE
    /\ UNCHANGED <<canonVars, fileVars, treeVars, memVars, lookupVars, readVars, diffVars>>

HookNext == HookApply

HookSpec == HookInit /\ [][HookNext]_vars

(***************************************************************************)
(* Specification of the two phases: on a RAM window one call of            *)
(* ApplyGeneralMemoryPatches or of ApplyApploaderMemoryPatches with a list *)
(* of patches.  Every range is at least as long as the stride less one, so *)
(* the loop bound of the scan does not wrap.                               *)
(***************************************************************************)
Flagged(memory, ocarina, search) ==
    [m_offset |-> memory.m_offset, m_value |-> memory.m_value,
     m_valuefile |-> memory.m_valuefile, m_original |-> memory.m_original,
     m_align |-> memory.m_align, m_ocarina |-> ocarina, m_search |-> search]

\* a hook to 0x00001800 after li r3, 1; a patch flagged hook and search whose
\* value is nop and whose original is li r3, 1; a search for blr in steps of
\* 4 that overwrites its first byte; a search for the byte 0x60 in steps of 1;
\* a direct patch that writes blr at 0x80000004
DispatchMemories ==
    {Flagged(Memory(U32(0, 6144), WordBytes(Li), <<>>, <<>>, 1), TRUE, FALSE),
     Flagged(Memory(U32(0, 4), WordBytes(Nop), <<>>, WordBytes(Li), 4), TRUE, TRUE),
     Flagged(Memory(U32(0, 8), <<1>>, <<>>, WordBytes(Blr), 4), FALSE, TRUE),
     Flagged(Memory(U32(0, 0), <<2, 2>>, <<>>, <<96>>, 1), FALSE, TRUE),
     Flagged(Memory(U32(0, 4), WordBytes(Blr), <<>>, <<>>, 1), FALSE, FALSE)}

MemoryPatchesOf(memories) == [m_memory_patches |-> memories]

\* no patch, one patch with up to two memory patches, and two patches of
\* which the first has up to two memory patches and the second has one
DispatchLists ==
    {<<>>}
    \cup {<<MemoryPatchesOf(memories)>> : memories \in SeqsUpTo(DispatchMemories, 2)}
    \cup {<<MemoryPatchesOf(memories), MemoryPatchesOf(<<last>>)>> :
            memories \in SeqsUpTo(DispatchMemories, 2), last \in DispatchMemories}

ApploaderLengths == {4, 4 * HookWords}

\* one call of ApplyGeneralMemoryPatches
DispatchGeneral ==
    /\ ~hDone
    /\ \E patches \in DispatchLists :
         LET after == ApplyGeneralMemoryPatches(Loader, patches, [mem |-> hMem, log |-> <<>>])
         IN  /\ hMem' = after.mem
             /\ hLog' = after.log
             /\ hLast' = [phase |-> "general", patches |-> patches,
                          ram_start |-> RamBase32, length |-> GetRamSize(hMem)]
    /\ hBefore' = hMem
    /\ hDone' = TRUE
    /\ UNCHANGED <<canonVars, fileVars, treeVars, memVars, lookupVars, readVars, diffVars>>

\* one call of ApplyApploaderMemoryPatches
DispatchApploader ==
    /\ ~hDone
    /\ \E patches \in DispatchLists, ram_address \in HookStarts, ram_length \in ApploaderLengths :
         LET after == ApplyApploaderMemoryPatches(Loader, patches, ram_address, ram_length,
                                                  [mem |-> hMem, log |-> <<>>])
         IN  /\ hMem' = after.mem
             /\ hLog' = after.log
             /\ hLast' = [phase |-> "apploader", patches |-> patches,
                          ram_start |-> ram_address, length |-> ram_length]
    /\ hBefore' = hMem
    /\ hDone' = TRUE
    /\ UNCHANGED <<canonVars, fileVars, treeVars, memVars, lookupVars, readVars, diffVars>>

DispatchNext == DispatchGeneral \/ DispatchApploader

DispatchSpec == HookInit /\ [][DispatchNext]_vars

(***************************************************************************)
(* Specification of the save differ: main calls calculate_diffs on two     *)
(* saves of up to two blocks each and then scramble_diffs on the first.    *)
(* Nothing compares the block counts of the two saves.                     *)
(***************************************************************************)
Blocks == {[m_block |-> data] : data \in [1..BlockSize -> {0, 1}]}

Savefiles == {[blocks |-> blocks] : blocks \in SeqsUpTo(Blocks, 2)}

\* what lies behind the end of rhscard.blocks: memory that faults, or blocks
BehindTheEnd ==
    {[fault |-> TRUE, blocks |-> <<>>]}
    \cup {[fault |-> FALSE, blocks |-> blocks] : blocks \in [1..2 -> Blocks]}

\* values of rand_byte(engine)
RandBytes == {0, 128, 255}

DiffInit ==
    /\ dLhs \in Savefiles
    /\ dRhs \in Savefiles
    /\ dDiffs = <<>>
    /\ dStage = "loaded"
    /\ CanonUnused
    /\ FileUnused
    /\ TreeUnused
    /\ MemUnused
    /\ HookUnused
    /\ LookupUnused
    /\ ReadUnused

\* auto diffs = calculate_diffs(lhssave, rhssave)
DiffCalculate ==
    /\ dStage = "loaded"
    /\ \E behind \in BehindTheEnd :
         LET after == calculate_diffs(dLhs, dRhs, behind)
         IN  /\ dDiffs' = after.diffs
             /\ dStage' = IF after.crashed THEN "diff_fault" ELSE "diffed"
    /\ UNCHANGED <<dLhs, dRhs, canonVars, fileVars, treeVars, memVars, hookVars, lookupVars, readVars>>

\* scramble_diffs(lhssave, diffs, targets, mutations, chunk_size, minimum_size)
DiffScramble ==
    /\ dStage = "diffed"
    /\ \E targets \in {{}, {0}, {1}}, mutations \in {0, 1, 2}, chunk_size \in {-1, 0, 1, 2},
          minimum_size \in {-1, 0, 1, 2} :
         \E after \in scramble_diffs(dLhs, dDiffs, targets, mutations, chunk_size,
                                     minimum_size, RandBytes) :
            /\ dLhs' = after.card
            /\ dStage' = IF after.crashed THEN "scramble_fault" ELSE "scrambled"
    /\ UNCHANGED <<dRhs, dDiffs, canonVars, fileVars, treeVars, memVars, hookVars, lookupVars, readVars>>

DiffNext == DiffCalculate \/ DiffScramble

DiffSpec == DiffInit /\ [][DiffNext]_vars

(***************************************************************************)
(* Properties of the path sandbox resolver.                                *)
(***************************************************************************)
CanonDone == cWalk.status \in {"ok", "fail"}

\* what the call returns once the walk has finished
CanonResult ==
    IF cWalk.status = "ok" THEN [ok |-> TRUE, path |-> cWalk.result]
    ELSE [ok |-> FALSE, path |-> <<>>]

StartingRoot == IF StringBeginsWith(cPath, "/") THEN cSd ELSE cPr

\* the element the next loop iteration extracts from the work string
NextElement(w) ==
    IF Find(w.work, "/") = 0 THEN w.work ELSE Prefix(w.work, Find(w.work, "/") - 1)

\* rest is exactly n parts "/component", no component empty or made only of dots
RECURSIVE IsComponentList(_, _)
IsComponentList(rest, n) ==
    IF rest = <<>> THEN n = 0
    ELSE /\ n > 0
         /\ rest[1] = "/"
         /\ LET t == Tail(rest)
                element == IF Find(t, "/") = 0 THEN t ELSE Prefix(t, Find(t, "/") - 1)
            IN  /\ ~AllDots(element)
                /\ IsComponentList(DropFirst(t, Len(element)), n - 1)

\* the elements of a path between its '/' separators (empty ones included)
RECURSIVE Elements(_)
Elements(path) ==
    IF Find(path, "/") = 0 THEN <<path>>
    ELSE <<Prefix(path, Find(path, "/") - 1)>> \o Elements(DropFirst(path, Find(path, "/")))

HasMultiDotElement(path) ==
    \E i \in 1..Len(Elements(path)) :
        Len(Elements(path)[i]) >= 3 /\ AllDots(Elements(path)[i])

NormalComponents == {<<"a">>, <<"b">>, <<"a", ".">>, <<".", "a">>}

\* C2: the walk never escapes its root: after every step depth is the number
\* of components appended below the starting root, the result is the root
\* followed by depth well-formed "/component" parts, and a ".." met at depth 0
\* makes the call fail.
C2_NeverEscapesRoot ==
    [][ /\ cWalk'.status \in {"walk", "ok"} =>
            /\ IsPrefixOf(StartingRoot', cWalk'.result)
            /\ IsComponentList(DropFirst(cWalk'.result, Len(StartingRoot')), cWalk'.depth)
        /\ (cWalk.status = "walk" /\ NextElement(cWalk) = <<".", ".">> /\ cWalk.depth = 0)
              => cWalk'.status = "fail"
        /\ cWalk'.status = "ok" => CanonResult' = MakeAbsoluteFromRelative(cPath, cSd, cPr)
      ]_vars

\* "a/../a" resolved one level below the root after going down, up and down
C2_Witness ==
    /\ cPath = <<"a", "/", ".", ".", "/", "a">>
    /\ cWalk.status = "ok"
    /\ cWalk.depth = 1
    /\ cWalk.result = StartingRoot \o <<"/", "a">>

\* C7: the starting root depends only on the first character: a path that
\* begins with '/' resolves under sd_root with the same result for every
\* patch_root, any other path resolves under patch_root with the same result
\* for every sd_root.
C7_RootByFirstChar ==
    CanonDone =>
      IF StringBeginsWith(cPath, "/")
      THEN /\ cWalk.status = "ok" => IsPrefixOf(cSd, cWalk.result)
           /\ \A r \in RootChoices : MakeAbsoluteFromRelative(cPath, cSd, r) = CanonResult
      ELSE /\ cWalk.status = "ok" => IsPrefixOf(cPr, cWalk.result)
           /\ \A r \in RootChoices : MakeAbsoluteFromRelative(cPath, r, cPr) = CanonResult

\* "/a" resolved to sd_root/a while patch_root is a different, unrelated root
C7_Witness ==
    /\ cPath = <<"/", "a">>
    /\ cSd = <<"/", "s">>
    /\ cPr = <<"/", "q">>
    /\ cWalk.status = "ok"
    /\ cWalk.result = <<"/", "s", "/", "a">>

\* C8: for every split of the path p/q at a separator and every normal
\* component x, p/x/../q, p/./q and p//q resolve exactly as p/q does (same
\* result or same failure); "a/../b" yields root/b.
C8_DotDotCancels ==
    CanonDone =>
      /\ \A i \in 1..Len(cPath) :
           cPath[i] = "/" =>
             LET p == Prefix(cPath, i - 1)
                 q == DropFirst(cPath, i)
             IN  /\ \A x \in NormalComponents :
                       MakeAbsoluteFromRelative(p \o <<"/">> \o x \o <<"/", ".", ".", "/">> \o q,
                                                cSd, cPr) = CanonResult
                 /\ MakeAbsoluteFromRelative(p \o <<"/", ".", "/">> \o q, cSd, cPr) = CanonResult
                 /\ MakeAbsoluteFromRelative(p \o <<"/", "/">> \o q, cSd, cPr) = CanonResult
      /\ MakeAbsoluteFromRelative(<<"a", "/", ".", ".", "/", "b">>, cSd, cPr)
            = [ok |-> TRUE, path |-> cPr \o <<"/", "b">>]

\* "a/./a" resolved two levels below the patch root
C8_Witness ==
    /\ cPath = <<"a", "/", ".", "/", "a">>
    /\ cWalk.status = "ok"
    /\ cWalk.depth = 2
    /\ cWalk.result = cPr \o <<"/", "a", "/", "a">>

\* C9: a path with an element of three or more dots always fails, at every
\* depth, also where as many ".." steps would have been legal.
C9_MultiDotFails ==
    (CanonDone /\ HasMultiDotElement(cPath)) => cWalk.status = "fail"

\* "a/a/..." failed at depth 2, where two ".." steps would have succeeded
C9_Witness ==
    /\ cPath = <<"a", "/", "a", "/", ".", ".", ".">>
    /\ cWalk.status = "fail"
    /\ cWalk.depth = 2
    /\ MakeAbsoluteFromRelative(<<"a", "/", "a", "/", ".", ".", "/", ".", ".">>, cSd, cPr).ok

(***************************************************************************)
(* Properties of the splice builder.                                       *)
(***************************************************************************)
SegEnd(seg) == seg.m_offset + seg.m_size

SortedByOffset(content) ==
    \A i, j \in 1..Len(content) : i < j => content[i].m_offset <= content[j].m_offset

NonOverlapping(content) ==
    \A i, j \in 1..Len(content) :
        i # j => (SegEnd(content[i]) <= content[j].m_offset
                  \/ SegEnd(content[j]) <= content[i].m_offset)

\* the segments start at 0, each starts where the previous one ends, none is
\* empty and the last one ends at size
Tiles(content, size) ==
    /\ \A i \in 1..Len(content) :
          /\ content[i].m_size > 0
          /\ content[i].m_offset = IF i = 1 THEN 0 ELSE SegEnd(content[i - 1])
    /\ size = IF content = <<>> THEN 0 ELSE SegEnd(content[Len(content)])

\* the quantities of the last call, as the patch format defines them
LastAvailable == fLast.called /\ GetExternalFileSize(Loader, fLast.external).ok

LastExternalSize == GetExternalFileSize(Loader, fLast.external).size

LastClampedOffset == Min(fLast.fileoffset, LastExternalSize)

LastExternalAvailable == LastExternalSize - LastClampedOffset

LastPatchSize == IF fLast.length = 0 THEN LastExternalAvailable ELSE fLast.length

LastPatchEnd == fLast.offset + LastPatchSize

\* C1: after any sequence of ApplyPatchToFile calls on a file that started
\* empty or gap-free, the segment list is sorted by offset, pairwise
\* non-overlapping, and every segment ends at or before the file size.
C1_SortedDisjointInside ==
    /\ SortedByOffset(fNode.m_content)
    /\ NonOverlapping(fNode.m_content)
    /\ \A i \in 1..Len(fNode.m_content) : SegEnd(fNode.m_content[i]) <= fNode.m_size

\* a second call that shrank a file of several segments by resizing
C1_Witness ==
    /\ fCalls = 2
    /\ LastAvailable
    /\ fLast.resize
    /\ fNode.m_size < fBefore.m_size
    /\ Len(fBefore.m_content) >= 3
    /\ Len(fNode.m_content) >= 2

\* C3: a non-resizing call repeated with identical parameters leaves the
\* segment list and the size exactly as the first of the two calls left them.
C3_RepeatIsIdempotent ==
    (fRepeat /\ ~fLast.resize) => fNode = fBefore

\* the repeated call spliced data and padding into the middle of the file
C3_Witness ==
    /\ fRepeat
    /\ ~fLast.resize
    /\ LastAvailable
    /\ fLast.offset > 0
    /\ 0 < LastExternalAvailable
    /\ LastExternalAvailable < LastPatchSize
    /\ LastPatchEnd < fNode.m_size
    /\ fNode = fBefore

\* the source of the right half of a split made left_size bytes into a segment
AdvancedSource(source, left_size) ==
    IF source.kind = "Fixed" THEN source
    ELSE [source EXCEPT !.off = source.off + left_size]

\* segment i of the file before the last call strictly contains the patch range
StrictlyInside(i) ==
    /\ LastAvailable
    /\ ~fLast.resize
    /\ i \in 1..Len(fBefore.m_content)
    /\ fBefore.m_content[i].m_offset < fLast.offset
    /\ LastPatchEnd < SegEnd(fBefore.m_content[i])

\* what the patch format says a call inserts: the external data, then zero fill
ExpectedInserted ==
    (IF LastPatchSize > 0 /\ LastExternalAvailable > 0
     THEN <<BuilderContentSource(fLast.offset, Min(LastPatchSize, LastExternalAvailable),
                                 ContentFile(Loader.patch_root \o <<"/">> \o fLast.external,
                                             LastClampedOffset))>>
     ELSE <<>>)
    \o
    (IF LastExternalAvailable < LastPatchSize
     THEN <<BuilderContentSource(fLast.offset + LastExternalAvailable,
                                 LastPatchSize - LastExternalAvailable,
                                 ContentFixedByte(0))>>
     ELSE <<>>)

\* C10 as stated: a non-resizing patch strictly inside segment [s, e) with
\* source offset o replaces it by exactly three segments, [s, patch_offset)
\* with o, one patch segment [patch_offset, patch_end) and [patch_end, e) with
\* the source advanced to o + (patch_end - s).
C10_ExactlyThreeSegments ==
    \A i \in 1..Len(fBefore.m_content) :
      (StrictlyInside(i) /\ LastPatchSize > 0) =>
        LET old == fBefore.m_content[i]
        IN  /\ Len(fNode.m_content) = Len(fBefore.m_content) + 2
            /\ fNode.m_content[i] = [old EXCEPT !.m_size = fLast.offset - old.m_offset]
            /\ fNode.m_content[i + 1].m_offset = fLast.offset
            /\ fNode.m_content[i + 1].m_size = LastPatchSize
            /\ fNode.m_content[i + 2] =
                  BuilderContentSource(LastPatchEnd, SegEnd(old) - LastPatchEnd,
                                       AdvancedSource(old.m_source, LastPatchEnd - old.m_offset))

\* C10 (amended): a non-resizing patch strictly inside segment [s, e) with
\* source offset o replaces it by [s, patch_offset) with o, the inserted patch
\* segments covering [patch_offset, patch_end) (the external data, followed by
\* zero fill when the external resource is shorter than the patch) and
\* [patch_end, e) with the source advanced to o + (patch_end - s): exactly
\* three segments when the external resource supplies the whole non-empty
\* patch.  Every split keeps the left half's source and advances the right
\* half's source offset by the left half's new size.
C10_SplitKeepsSources ==
    /\ \A i \in 1..Len(fBefore.m_content) :
         StrictlyInside(i) =>
           LET old == fBefore.m_content[i]
           IN  /\ fNode.m_content =
                     Prefix(fBefore.m_content, i - 1)
                     \o <<[old EXCEPT !.m_size = fLast.offset - old.m_offset]>>
                     \o ExpectedInserted
                     \o <<BuilderContentSource(LastPatchEnd, SegEnd(old) - LastPatchEnd,
                            AdvancedSource(old.m_source, LastPatchEnd - old.m_offset))>>
                     \o DropFirst(fBefore.m_content, i)
               /\ (LastPatchSize > 0 /\ LastExternalAvailable >= LastPatchSize)
                     => Len(fNode.m_content) = Len(fBefore.m_content) + 2
    /\ \A i \in 1..Len(fBefore.m_content) :
         LET old == fBefore.m_content[i]
         IN  /\ (LastAvailable /\ old.m_offset < fLast.offset /\ fLast.offset < SegEnd(old))
                   => \E k \in 1..Len(fNode.m_content) :
                         fNode.m_content[k] = [old EXCEPT !.m_size = fLast.offset - old.m_offset]
             /\ (LastAvailable /\ ~fLast.resize
                   /\ old.m_offset < LastPatchEnd /\ LastPatchEnd < SegEnd(old))
                   => \E k \in 1..Len(fNode.m_content) :
                         fNode.m_content[k] =
                            BuilderContentSource(LastPatchEnd, SegEnd(old) - LastPatchEnd,
                               AdvancedSource(old.m_source, LastPatchEnd - old.m_offset))

\* a 2-byte patch at offset 1 of the 4-byte single-segment volume file
C10_Witness ==
    /\ fCalls = 1
    /\ StrictlyInside(1)
    /\ fBefore.m_content = <<BuilderContentSource(0, 4, ContentVolume("vol", 8))>>
    /\ fLast.offset = 1
    /\ LastPatchEnd = 3
    /\ Len(fNode.m_content) = 3
    /\ fNode.m_content[3] = BuilderContentSource(3, 1, ContentVolume("vol", 11))

\* C11: what a call with an available resource inserts is, in order, the
\* patch data [patch_offset, patch_offset + min(patch_size, external_available))
\* read at the clamped external offset, present iff patch_size > 0 and
\* external_available > 0, then zero fill [patch_offset + external_available,
\* patch_end), present iff external_available < patch_size; these sit at the
\* insertion index, between the segments that end at or before patch_offset
\* and those that start at or after patch_end.
C11_InsertsDataThenFill ==
    LastAvailable =>
      \E k \in 0..Len(fNode.m_content) :
        /\ k + Len(ExpectedInserted) <= Len(fNode.m_content)
        /\ SubSeq(fNode.m_content, k + 1, k + Len(ExpectedInserted)) = ExpectedInserted
        /\ \A j \in 1..k : SegEnd(fNode.m_content[j]) <= fLast.offset
        /\ \A j \in (k + Len(ExpectedInserted) + 1)..Len(fNode.m_content) :
              fNode.m_content[j].m_offset >= LastPatchEnd

\* the empty file patched at 0 with length 2 while one byte of the resource is
\* left: one byte of data, one byte of fill, size 2
C11_Witness ==
    /\ fBefore = EmptyFile
    /\ fLast.offset = 0
    /\ fLast.length = 2
    /\ LastExternalAvailable = 1
    /\ fNode.m_size = 2
    /\ fNode.m_content =
          <<BuilderContentSource(0, 1, ContentFile(<<"/", "s", "/", "p", "/", "x">>, 1)),
            BuilderContentSource(1, 1, ContentFixedByte(0))>>

\* C12: after a call with an available resource the file size is patch_end
\* when resize is set and max(previous size, patch_end) otherwise, patch_end
\* being patch_offset + (length = 0 ? external_size - min(external_offset,
\* external_size) : length); no segment starting at or after the new size
\* remains.
C12_SizeAndTruncation ==
    LastAvailable =>
      LET external_size == GetExternalFileSize(Loader, fLast.external).size
          patch_end == fLast.offset
                       + (IF fLast.length = 0
                          THEN external_size - Min(fLast.fileoffset, external_size)
                          ELSE fLast.length)
      IN  /\ fNode.m_size = IF fLast.resize THEN patch_end
                             ELSE Max(fBefore.m_size, patch_end)
          /\ \A i \in 1..Len(fNode.m_content) : fNode.m_content[i].m_offset < fNode.m_size

\* a resizing patch of length 0 at offset 0, with one byte of the resource
\* left, cut the two-segment 4-byte file down to that one byte
C12_Witness ==
    /\ fCalls = 1
    /\ fLast.resize
    /\ fLast.length = 0
    /\ fLast.offset = 0
    /\ LastExternalAvailable = 1
    /\ fBefore.m_size = 4
    /\ Len(fBefore.m_content) = 2
    /\ fNode.m_size = 1
    /\ Len(fNode.m_content) = 1

\* gap-free coverage, used to cross-check the start states of the calls
FileTiles == Tiles(fNode.m_content, fNode.m_size)

(***************************************************************************)
(* Properties of the tree resolver and of the patch list.                  *)
(***************************************************************************)
ExternalUnavailable(file) == ~GetExternalFileSize(Loader, file.m_external).ok

\* the lookup of ApplyFilePatchToFST finds (or creates) a node to patch
TargetFound(file, tree) ==
    IF file.m_disc # <<>> /\ file.m_disc[1] = "/"
    THEN FindFileNodeInFST(Tail(file.m_disc), tree.fst, file.m_create).node # <<>>
    ELSE IF CaseInsensitiveEquals(file.m_disc, MainDol) THEN TRUE
    ELSE FindFilenameNodeInFST(file.m_disc, tree.fst) # <<>>

\* a file patch fails when its external resource is unavailable (missing or
\* rejected by the sandbox) or its target is missing or of the wrong kind
FilePatchFailed(file, tree) == ExternalUnavailable(file) \/ ~TargetFound(file, tree)

\* the file patches from position k on that do not fail in the run from tree
RECURSIVE SucceededFiles(_, _, _)
SucceededFiles(file_patches, tree, k) ==
    IF k > Len(file_patches) THEN <<>>
    ELSE (IF FilePatchFailed(file_patches[k], tree) THEN <<>> ELSE <<file_patches[k]>>)
         \o SucceededFiles(file_patches, ApplyFilePatchToFST(Loader, file_patches[k], tree),
                           k + 1)

\* the patch list with every file patch that fails in the run removed
RECURSIVE WithoutFailed(_, _, _)
WithoutFailed(patches, tree, k) ==
    IF k > Len(patches) THEN <<>>
    ELSE <<[patches[k] EXCEPT
              !.m_file_patches = SucceededFiles(patches[k].m_file_patches, tree, 1)]>>
         \o WithoutFailed(patches, ApplyPatchesToFiles(Loader, <<patches[k]>>, tree), k + 1)

\* C4: a file patch whose external resource is unavailable (missing, or its
\* path rejected by the sandbox) leaves the whole tree and the dol node
\* unchanged, for every disc path and every create and resize flag.
C4_UnavailableIsNoOp ==
    (/\ tDone
     /\ Len(tPatches) = 1
     /\ Len(tPatches[1].m_file_patches) = 1
     /\ tPatches[1].m_folder_patches = <<>>
     /\ ExternalUnavailable(tPatches[1].m_file_patches[1]))
    => tTree = tBefore

\* C5: the final tree of a patch list is the final tree of the same list with
\* every failed patch removed.
C5_FaultIsolated ==
    tDone => tTree = ApplyPatchesToFiles(Loader, WithoutFailed(tPatches, tBefore, 1), tBefore)

(***************************************************************************)
(* Properties of the memory patch engine.                                  *)
(***************************************************************************)
LastAddress == OrHighBit(mLast.m_offset)

\* some byte of the expected original differs from memory or cannot be read
OriginalMismatch ==
    \E i \in 1..Len(mLast.m_original) :
        mBefore[(LastAddress + i - 1) % AddrMod] # mLast.m_original[i]

\* C6: a direct patch with a non-empty expected_original of which some byte
\* differs from memory or cannot be read writes nothing: memory is unchanged,
\* no byte write is attempted and UnpatchRange is not called.
C6_MismatchWritesNothing ==
    (mDone /\ mLast.m_original # <<>> /\ OriginalMismatch)
        => (mMem = mBefore /\ mLog = <<>>)

\* the first expected byte matches memory, the second does not, and the patch
\* had two bytes to write into mapped memory
C6_Witness ==
    /\ mDone
    /\ mLast.m_offset # 0
    /\ Len(mLast.m_original) = 2
    /\ Len(mLast.m_value) = 2
    /\ mLast.m_valuefile = <<>>
    /\ mBefore[LastAddress] = mLast.m_original[1]
    /\ mBefore[(LastAddress + 1) % AddrMod] \in {0, 1} \ {mLast.m_original[2]}
    /\ mBefore[LastAddress] # mLast.m_value[1]
    /\ mMem = mBefore

(***************************************************************************)
(* Properties of the search patch.                                         *)
(***************************************************************************)
SearchDone == mScan.phase = "done" /\ mLast.m_original # <<>> /\ mLast.m_align > 0

\* the offsets k * stride of the scan range at which memory matched the
\* expected original before the patch
MatchingOffsets ==
    {k \in 0..(mScan.length - 1) :
        /\ k % mLast.m_align = 0
        /\ MemoryMatchesAt(mBefore, AddU32(mScan.ram_start, k), mLast.m_original)}

LowestOffset(offsets) == CHOOSE k \in offsets : \A other \in offsets : k <= other

\* C13: a search patch with a non-empty original and stride > 0 writes the
\* value at exactly one place, the lowest offset k * stride of the scan range
\* at which memory matches the original, without re-checking the original,
\* and stops; without a match memory is unchanged and UnpatchRange is not
\* called.
C13_WritesAtFirstMatch ==
    SearchDone =>
      IF MatchingOffsets = {}
      THEN mMem = mBefore /\ mLog = <<>>
      ELSE [mem |-> mMem, log |-> mLog]
             = ApplyMemoryPatch([mem |-> mBefore, log |-> <<>>],
                                AddU32(mScan.ram_start, LowestOffset(MatchingOffsets)),
                                mLast.m_value, <<>>)

\* the last patch was a direct patch that passed its checks
DirectPassed ==
    /\ mDone
    /\ mScan.phase = "idle"
    /\ mLast.m_offset # 0
    /\ MemoryMatchesAt(mBefore, LastAddress, mLast.m_original)

\* the last patch was a search patch whose scan ended on a match
SearchMatched ==
    /\ SearchDone
    /\ mScan.i < SearchLoopBound(mScan.length, mLast.m_align)
    /\ MemoryMatchesAt(mBefore, AddU32(mScan.ram_start, mScan.i), mLast.m_original)

\* the address the last patch wrote at
WrittenAddress ==
    IF mScan.phase = "idle" THEN LastAddress ELSE AddU32(mScan.ram_start, mScan.i)

LastValue == GetMemoryPatchValue(Loader, mLast)

\* C15: a direct patch, or the direct patch of a search match, that passes
\* its checks with a non-empty value attempts the byte writes in order and
\* then calls UnpatchRange exactly once, after the last write, with
\* [address, address + len(value)) (the end computed as the address is, in
\* wrapping arithmetic), whether or not the byte writes succeeded.
C15_UnpatchAfterWrites ==
    ((DirectPassed \/ SearchMatched) /\ LastValue # <<>>) =>
      /\ Len(mLog) = Len(LastValue) + 1
      /\ \A j \in 1..Len(LastValue) :
            /\ mLog[j][1] = "write"
            /\ mLog[j][2] = AddU32(WrittenAddress, j - 1)
            /\ mLog[j][3] = LastValue[j]
      /\ mLog[Len(mLog)]
            = <<"unpatch", WrittenAddress, AddU32(WrittenAddress, Len(LastValue))>>

\* a direct patch of two bytes at the last mapped address: the second write
\* failed and UnpatchRange was still called with both bytes' range
C15_Witness ==
    /\ DirectPassed
    /\ Len(LastValue) = 2
    /\ mBefore[LastAddress] # Unmapped
    /\ mBefore[AddU32(LastAddress, 1)] = Unmapped
    /\ mLog[2][4] = FALSE
    /\ mLog[3] = <<"unpatch", LastAddress, AddU32(LastAddress, 2)>>

(***************************************************************************)
(* Properties of the hook patch.                                           *)
(***************************************************************************)
HookValue == GetMemoryPatchValue(Loader, hLast.patch)

HookAddress(i) == Add32(hLast.ram_start, U32(0, i))

\* the 4-byte-stepped offsets of the range
HookOffsets == {i \in 0..(hLast.length - 1) : i % 4 = 0}

\* the offsets of the range at which the value pattern matched before the patch
PatternOffsets ==
    {i \in HookOffsets : MemoryMatchesAt32(hBefore, HookAddress(i), HookValue)}

\* the offsets at or after the first pattern match that held the return encoding
BlrOffsets ==
    {j \in HookOffsets :
        /\ j >= LowestOffset(PatternOffsets)
        /\ HostTryReadU32(hBefore, HookAddress(j)) = [ok |-> TRUE, value |-> Blr]}

\* B, the address of the first return encoding at or after the first match
HookSite == HookAddress(LowestOffset(BlrOffsets))

\* the low 26 bits of a u32 and a word below 2^31, as numbers
Low26(x) == (x.hi % 1024) * Half + x.lo

WordValue(x) == x.hi * Half + x.lo

\* ((T - B) & 0x03FFFFFC) | 0x48000000 with T = address_offset | 0x80000000,
\* as a number: the difference modulo 2^26 with its two low bits cleared,
\* plus 0x48000000
ExpectedJump ==
    18432 * Half
    + (((Low26(OrHighBit32(hLast.patch.m_offset)) - Low26(HookSite)) % (1024 * Half)) \div 4) * 4

\* the word at B is the jump, every other byte is unchanged and UnpatchRange
\* was called exactly once, with [B, B + 4)
HookWritten ==
    /\ HostTryReadU32(hMem, HookSite).ok
    /\ WordValue(HostTryReadU32(hMem, HookSite).value) = ExpectedJump
    /\ Len(hMem) = Len(hBefore)
    /\ \A k \in 1..Len(hMem) :
          (k < RamIndex(hBefore, HookSite) \/ k > RamIndex(hBefore, HookSite) + 3)
             => hMem[k] = hBefore[k]
    /\ Cardinality({n \in 1..Len(hLog) : hLog[n][1] = "unpatch"}) = 1
    /\ hLog[Len(hLog)] = <<"unpatch", HookSite, Add32(HookSite, U32(0, 4))>>

\* C14 as stated: whenever the value pattern first matches at A of the range
\* and B is the first address at or after A (4-byte steps, inside the range)
\* holding 0x4E800020, the word at B becomes ((T - B) & 0x03FFFFFC) |
\* 0x48000000, every other byte is unchanged and UnpatchRange is called once
\* with [B, B + 4).
C14_JumpAtReturn ==
    (hDone /\ PatternOffsets # {} /\ BlrOffsets # {}) => HookWritten

\* C14 (amended): the same, for a hook patch whose address_offset is not 0
\* and whose value is not empty; a patch with address_offset 0 or an empty
\* value writes nothing.
C14_JumpAtReturnForTarget ==
    (/\ hDone
     /\ hLast.patch.m_offset # U32(0, 0)
     /\ HookValue # <<>>
     /\ PatternOffsets # {}
     /\ BlrOffsets # {}) => HookWritten

\* li, nop, blr: the pattern li matched at the base, the return two words
\* later became 0x4BFFFFF8, the jump to 0xCC000002 from 0x80000008
C14_Witness ==
    /\ hDone
    /\ hBefore = ImageOf(<<Li, Nop, Blr>>)
    /\ hLast.patch.m_offset = U32(19456, 2)
    /\ HookValue = WordBytes(Li)
    /\ hLast.ram_start = RamBase32
    /\ hLast.length = 12
    /\ HookSite = U32(32768, 8)
    /\ hMem = ImageOf(<<Li, Nop, U32(19455, 65528)>>)


(***************************************************************************)
(* Properties of the two lookups.                                          *)
(***************************************************************************)
\* the components of a path: the names between the separators
RECURSIVE SplitPath(_)
SplitPath(path) ==
    IF Find(path, "/") = 0 THEN <<path>>
    ELSE <<Prefix(path, Find(path, "/") - 1)>> \o SplitPath(DropFirst(path, Find(path, "/")))

\* the children that answer to a name
Matching(fst, name) == {k \in 1..Len(fst) : CaseInsensitiveEquals(fst[k].m_filename, name)}

FirstMatching(fst, name) == CHOOSE k \in Matching(fst, name) : \A j \in Matching(fst, name) : k <= j

\* the number of leading components that are found with the implied kind
RECURSIVE MatchedDepth(_, _)
MatchedDepth(fst, comps) ==
    IF Matching(fst, comps[1]) = {} THEN 0
    ELSE IF fst[FirstMatching(fst, comps[1])].is_file # (Len(comps) = 1) THEN 0
    ELSE IF Len(comps) = 1 THEN 1
    ELSE 1 + MatchedDepth(fst[FirstMatching(fst, comps[1])].m_content, Tail(comps))

\* the children list reached after the first n components
RECURSIVE ListAfter(_, _, _)
ListAfter(fst, comps, n) ==
    IF n = 0 THEN fst
    ELSE ListAfter(fst[FirstMatching(fst, comps[1])].m_content, Tail(comps), n - 1)

\* the first component that is not found with the implied kind is found
\* with the other kind
KindConflict(fst, comps) ==
    LET n == MatchedDepth(fst, comps)
    IN  /\ n < Len(comps)
        /\ Matching(ListAfter(fst, comps, n), comps[n + 1]) # {}

\* the first component that is not found with the implied kind is not found
MissingComponent(fst, comps) ==
    LET n == MatchedDepth(fst, comps)
    IN  /\ n < Len(comps)
        /\ Matching(ListAfter(fst, comps, n), comps[n + 1]) = {}

FileLookups == {i \in 1..Len(lCalls) : lCalls[i].op = "file"}

\* C16: FindFileNodeInFST returns no node and leaves the tree as it was, with
\* no folder created, when a component is found with the wrong kind (for
\* either value of create_if_not_exists) and when a component is not found
\* and create_if_not_exists is false.
C16_FailureLeavesTree ==
    \A i \in FileLookups :
      LET call == lCalls[i]
          comps == SplitPath(call.path)
      IN  (\/ KindConflict(call.before, comps)
           \/ MissingComponent(call.before, comps) /\ ~call.create)
          => call.node = <<>> /\ call.after = call.before

\* d/f/x with create_if_not_exists true on a tree where d/f is a file, after
\* a first lookup of a missing file without create_if_not_exists
C16_Witness ==
    /\ Len(lCalls) = 2
    /\ lCalls[1].op = "file"
    /\ ~lCalls[1].create
    /\ MissingComponent(lCalls[1].before, SplitPath(lCalls[1].path))
    /\ lCalls[2] = FileLookup(<<"d", "/", "f", "/", "x">>, TRUE, NullNode(tTree.fst), tBefore.fst)
    /\ KindConflict(tBefore.fst, SplitPath(lCalls[2].path))
    /\ tTree = tBefore

\* the pointers to all the nodes of a tree
RECURSIVE Pointers(_)
Pointers(fst) ==
    UNION {{<<k>>} \cup (IF fst[k].is_file THEN {}
                         ELSE {<<k>> \o p : p \in Pointers(fst[k].m_content)}) :
           k \in 1..Len(fst)}

\* a node without its children
Shallow(node) == IF node.is_file THEN node ELSE [node EXCEPT !.m_content = <<>>]

\* the nodes of before are nodes of after, at the same place and unmodified
ExistingKept(before, after) ==
    /\ Pointers(before) \subseteq Pointers(after)
    /\ \A p \in Pointers(before) : Shallow(NodeAt(after, p)) = Shallow(NodeAt(before, p))

\* an empty file for the last component, a folder for any other component
CreatedFor(node, comps, j) ==
    /\ node.m_filename = comps[j]
    /\ node.m_size = 0
    /\ node.is_file = (j = Len(comps))
    /\ node.is_file => node.m_content = <<>>

\* a lookup with create_if_not_exists on a path without kind conflict
CreatingLookups ==
    {i \in FileLookups :
        lCalls[i].create /\ ~KindConflict(lCalls[i].before, SplitPath(lCalls[i].path))}

\* C17: with create_if_not_exists true and no kind conflict on the path,
\* FindFileNodeInFST returns a file node at the path and creates exactly the
\* missing nodes: a folder for each missing component but the last and an
\* empty file for a missing last component, each appended to the children
\* of its parent.  The existing nodes are not modified, and a following
\* lookup of the same path in any letter case without create_if_not_exists
\* returns the same node.
C17_CreatesMissingNodes ==
    \A i \in CreatingLookups :
      LET call == lCalls[i]
          comps == SplitPath(call.path)
          n == MatchedDepth(call.before, comps)
      IN  /\ call.node # <<>>
          /\ Len(call.node) = Len(comps)
          /\ NodeAt(call.after, call.node).is_file
          /\ \A j \in 1..Len(comps) :
               CaseInsensitiveEquals(NodeAt(call.after, Prefix(call.node, j)).m_filename,
                                     comps[j])
          /\ ExistingKept(call.before, call.after)
          /\ Pointers(call.after) \ Pointers(call.before)
               = {Prefix(call.node, j) : j \in (n + 1)..Len(comps)}
          /\ \A j \in (n + 1)..Len(comps) :
               CreatedFor(NodeAt(call.after, Prefix(call.node, j)), comps, j)
          /\ (/\ i + 1 \in FileLookups
              /\ ~lCalls[i + 1].create
              /\ CaseInsensitiveEquals(lCalls[i + 1].path, call.path))
             => /\ lCalls[i + 1].node = call.node
                /\ lCalls[i + 1].after = call.after

\* n/o/f is created below the root of the first tree as two folders and a
\* file behind the two existing children, and N/O/F finds the file again
C17_Witness ==
    /\ Len(lCalls) = 2
    /\ lCalls[1].op = "file"
    /\ lCalls[1].path = <<"n", "/", "o", "/", "f">>
    /\ lCalls[1].create
    /\ Len(lCalls[1].before) = 2
    /\ lCalls[1].node = <<3, 1, 1>>
    /\ lCalls[1].after
         = Append(lCalls[1].before,
                  FolderNode(<<"n">>, <<FolderNode(<<"o">>, <<FileNode(<<"f">>, 0, <<>>)>>)>>))
    /\ lCalls[2] = FileLookup(<<"N", "/", "O", "/", "F">>, FALSE,
                              [node |-> <<3, 1, 1>>, fst |-> tTree.fst], tTree.fst)
    /\ tTree.fst = lCalls[1].after
\* depth-first order of two pointers: a node comes before its descendants
\* and before everything below its later siblings
Precedes(p, q) ==
    \/ Len(p) < Len(q) /\ Prefix(q, Len(p)) = p
    \/ \E j \in 1..Len(p) :
         /\ j <= Len(q)
         /\ p[j] < q[j]
         /\ \A k \in 1..(j - 1) : p[k] = q[k]

\* the files anywhere in the tree that answer to a name
FilesNamed(fst, filename) ==
    {p \in Pointers(fst) :
        NodeAt(fst, p).is_file /\ CaseInsensitiveEquals(NodeAt(fst, p).m_filename, filename)}

FilenameLookups == {i \in 1..Len(lCalls) : lCalls[i].op = "filename"}

\* C18: FindFilenameNodeInFST returns the first file in depth-first order
\* whose name equals the given name case-insensitively, never a folder, and
\* nothing when no file matches; the tree is not modified.
C18_FirstFileDepthFirst ==
    /\ \A i \in FilenameLookups :
         LET call == lCalls[i]
             files == FilesNamed(call.before, call.path)
         IN  /\ files = {} => call.node = <<>>
             /\ files # {} => /\ call.node \in files
                              /\ \A p \in files \ {call.node} : Precedes(call.node, p)
    /\ (lCalls # <<>> /\ lCalls[Len(lCalls)].op = "filename") => tTree = tBefore

\* the name h in the nested tree: the folder d/h is passed over, the file
\* d/H is returned and the file h of the root is not reached
C18_Witness ==
    /\ Len(lCalls) = 1
    /\ tTree = NestedTree
    /\ lCalls[1] = FilenameLookup(<<"h">>, <<1, 2>>, NestedTree.fst)
    /\ ~NodeAt(NestedTree.fst, <<1, 1>>).is_file
    /\ FilesNamed(NestedTree.fst, <<"h">>) = {<<1, 2>>, <<2>>}
(***************************************************************************)
(* Properties of the main executable.                                      *)
(***************************************************************************)
\* the file patches of a run that consists of file patches of one patch
MainDolRun ==
    /\ tDone
    /\ Len(tPatches) = 1
    /\ tPatches[1].m_folder_patches = <<>>
    /\ \A k \in 1..Len(tPatches[1].m_file_patches) :
         CaseInsensitiveEquals(tPatches[1].m_file_patches[k].m_disc, MainDol)

\* the node after the file patches from position k on
RECURSIVE PatchedInOrder(_, _, _)
PatchedInOrder(file_patches, node, k) ==
    IF k > Len(file_patches) THEN node
    ELSE PatchedInOrder(file_patches, ApplyPatchToFileNode(Loader, file_patches[k], node), k + 1)

\* C19: a file patch whose target equals "main.dol" case-insensitively is
\* applied to the dol node and to no tree node: the tree is unchanged, even
\* when it holds a file named main.dol, for either value of the create flag.
C19_MainDolBypassesTree ==
    MainDolRun =>
      /\ tTree.fst = tBefore.fst
      /\ tTree.dol_node = PatchedInOrder(tPatches[1].m_file_patches, tBefore.dol_node, 1)

\* MAIN.DOL with the create flag on the tree that holds a file Main.dol:
\* the dol node starts with the external file and the tree file is as before
C19_Witness ==
    /\ MainDolRun
    /\ Len(tPatches[1].m_file_patches) = 1
    /\ tPatches[1].m_file_patches[1].m_disc = <<"M", "A", "I", "N", ".", "D", "O", "L">>
    /\ tPatches[1].m_file_patches[1].m_create
    /\ FilesNamed(tBefore.fst, MainDol) = {<<2>>}
    /\ NodeAt(tTree.fst, <<2>>) = NodeAt(tBefore.fst, <<2>>)
    /\ tTree.dol_node # tBefore.dol_node
    /\ tTree.dol_node.m_content[1].m_source.kind = "File"
(***************************************************************************)
(* Properties of the round trip through the range index.                   *)
(***************************************************************************)
\* the sources of a segment list that cover position p of the file
Covering(content, p) ==
    {i \in 1..Len(content) : content[i].m_offset <= p /\ p < SegEnd(content[i])}

\* the byte a source holds at position p of the file
ByteOf(seg, p) ==
    IF seg.m_source.kind = "Fixed" THEN seg.m_source.ref
    ELSE IF seg.m_source.kind = "Memory"
    THEN Buffers[seg.m_source.ref][seg.m_source.off + (p - seg.m_offset) + 1]
    ELSE HostFileContents[seg.m_source.ref][seg.m_source.off + (p - seg.m_offset) + 1]

\* the bytes a segment list implies for [0, size); -1 where no source
\* covers a position
ImpliedBytes(file_node) ==
    [q \in 1..file_node.m_size |->
        IF Covering(file_node.m_content, q - 1) = {} THEN -1
        ELSE ByteOf(file_node.m_content[LowestOffset(Covering(file_node.m_content, q - 1))],
                    q - 1)]

\* C20: for a file built from buffer and fill segments, after any sequence
\* of patches, the read of [0, size) through the frozen index (first segment
\* whose end offset exceeds the read offset, then consecutive segments)
\* succeeds and returns the bytes the segment list implies.
C20_RoundTrip ==
    rDone => rData = [ok |-> TRUE, bytes |-> ImpliedBytes(rNode)]

\* the 4-byte buffer file after a patch of one byte of "x" at offset 1 and a
\* second patch: the buffer was split, and the read returns a buffer byte,
\* the file byte and the buffer again from its advanced start
C20_Witness ==
    /\ rDone
    /\ fCalls = 2
    /\ Len(rNode.m_content) >= 3
    /\ rNode.m_size = 4
    /\ rNode.m_content[1].m_source = ContentMemory("buf", 0)
    /\ rNode.m_content[2].m_source.kind = "File"
    /\ rNode.m_content[Len(rNode.m_content)].m_source.kind = "Memory"
    /\ rNode.m_content[Len(rNode.m_content)].m_source.off > 0
    /\ Len(rIndex) = Len(rNode.m_content)
    /\ rData.ok
    /\ Len(rData.bytes) = 4
(***************************************************************************)
(* Properties of the scan range of the search patch.                       *)
(***************************************************************************)
\* the scan loop is about to pass ram_start + i to the match test
TestPending ==
    /\ mScan.phase = "scan"
    /\ mScan.i < SearchLoopBound(mScan.length, mLast.m_align)

\* offset i is a candidate of the range: i = k * stride and k * stride +
\* stride <= length, as numbers
CandidateInRange == mScan.i % mLast.m_align = 0 /\ mScan.i + mLast.m_align <= mScan.length

\* C21: for every scan length, 0 and lengths below stride - 1 included, and
\* every stride > 0, each address the search patch passes to the match test,
\* and the address it patches, is ram_start + k * stride with k * stride +
\* stride <= length.
C21_TestsInsideRange ==
    /\ TestPending => CandidateInRange
    /\ SearchMatched => CandidateInRange
\* C22: every memory patch application terminates: for every range length,
\* every stride > 0 and every memory content, a scan that was entered ends.
C22_ScanTerminates == (mScan.phase = "scan") ~> (mScan.phase = "done")
(***************************************************************************)
(* Properties of the hook patch that finds nothing.                        *)
(***************************************************************************)
\* the patch has no target or no pattern, the pattern is nowhere in the
\* range, or no return encoding follows its first match inside the range
NothingToHook ==
    \/ hLast.patch.m_offset = U32(0, 0)
    \/ HookValue = <<>>
    \/ PatternOffsets = {}
    \/ BlrOffsets = {}

\* C23: a hook patch that finds no occurrence of the value pattern in the
\* range, or no return encoding at or after the first match inside the
\* range, or whose address_offset is 0 or whose value is empty, leaves
\* memory unchanged, attempts no write and does not call UnpatchRange.
C23_NoMatchNoEffect ==
    (hDone /\ NothingToHook) => (hMem = hBefore /\ hLog = <<>>)

\* blr, li, nop: the pattern li matches one word after the only return
\* encoding of the range, and nothing is written
C23_Witness ==
    /\ hDone
    /\ hBefore = ImageOf(<<Blr, Li, Nop>>)
    /\ hLast.patch.m_offset = U32(0, 6144)
    /\ HookValue = WordBytes(Li)
    /\ hLast.ram_start = RamBase32
    /\ hLast.length = 12
    /\ PatternOffsets = {4}
    /\ BlrOffsets = {}
    /\ hMem = hBefore
(***************************************************************************)
(* Properties of the file patch offset.                                    *)
(***************************************************************************)
\* a byte offset with its two low bits cleared
LowBitsCleared(offset) == 4 * (offset \div 4)

\* the file patch of the last call with another byte offset
LastPatchAt(offset) ==
    File(<<"/", "f">>, fLast.external, offset, fLast.fileoffset, fLast.length, fLast.resize, FALSE)

\* C24: the file patch offset is aligned down to a 4-byte boundary before
\* splicing: the result is the splice at byte_offset with its two low bits
\* cleared, with external_byte_offset and length as given, and patches that
\* differ only in the two low bits of byte_offset give the same node.
C24_OffsetAlignedDown ==
    fLast.called =>
      /\ fNode = ApplyPatchToFile(Loader, fBefore, fLast.external, LowBitsCleared(fLast.offset),
                                  fLast.fileoffset, fLast.length, fLast.resize)
      /\ \A offset \in 0..MaxByteOffset :
           LowBitsCleared(offset) = LowBitsCleared(fLast.offset)
             => ApplyPatchToFileNode(Loader, LastPatchAt(offset), fBefore) = fNode

\* byte offset 5, external offset 1 and length 1 on the 4-byte file: the
\* segment is placed at 4 and reads 1 byte of "x" from offset 1
C24_Witness ==
    /\ fLast.called
    /\ fLast.offset = 5
    /\ fLast.fileoffset = 1
    /\ fLast.length = 1
    /\ fBefore.m_size = 4
    /\ fNode.m_size = 5
    /\ fNode.m_content[Len(fNode.m_content)]
         = BuilderContentSource(4, 1, ContentFile(<<"/", "s", "/", "p", "/", "x">>, 1))
(***************************************************************************)
(* Properties of the coverage and of the bytes of a patched file.          *)
(***************************************************************************)
\* the segments exactly tile [0, size): the first starts at 0, each starts
\* where the previous one ends and the last ends at size
TilesExactly(content, size) ==
    /\ \A i \in 1..Len(content) :
          content[i].m_offset = IF i = 1 THEN 0 ELSE SegEnd(content[i - 1])
    /\ size = IF content = <<>> THEN 0 ELSE SegEnd(content[Len(content)])

\* C25: gap-free coverage is preserved: a file whose segments exactly tile
\* [0, size) before ApplyPatchToFile exactly tiles [0, new size) after it,
\* and so after any sequence of calls.
C25_TilingPreserved ==
    TilesExactly(fBefore.m_content, fBefore.m_size) => TilesExactly(fNode.m_content, fNode.m_size)

\* the 4-byte file with an empty segment in the middle, shrunk by two
\* patches to 2 bytes in two segments
C25_Witness ==
    /\ fCalls = 2
    /\ fBefore.m_size = 4
    /\ Len(fBefore.m_content) = 3
    /\ fBefore.m_content[2].m_size = 0
    /\ fNode.m_size = 2
    /\ Len(fNode.m_content) = 2
    /\ fNode.m_content[2].m_source.kind = "File"
\* where the byte at position k of a segment comes from: the source and the
\* place in it, or the fill value
SourceByte(seg, k) ==
    IF seg.m_source.kind = "Fixed" THEN [kind |-> "Fixed", ref |-> seg.m_source.ref, off |-> 0]
    ELSE [kind |-> seg.m_source.kind, ref |-> seg.m_source.ref,
          off |-> seg.m_source.off + (k - seg.m_offset)]

NoByte == [kind |-> "None", ref |-> 0, off |-> 0]

ZeroByte == [kind |-> "Fixed", ref |-> 0, off |-> 0]

\* the byte a segment list implies at position k
ImpliedByte(content, k) ==
    IF Covering(content, k) = {} THEN NoByte
    ELSE SourceByte(content[LowestOffset(Covering(content, k))], k)

SameByte(a, b) == a.kind = b.kind /\ a.off = b.off /\ a.ref = b.ref

\* the byte of the external file that the last patch puts at position k
ExternalByte(k) ==
    [kind |-> "File",
     ref |-> MakeAbsoluteFromRelative(fLast.external, Loader.sd_root, Loader.patch_root).path,
     off |-> LastClampedOffset + (k - fLast.offset)]

\* the byte the claim gives for position k after the last patch
ExpectedByte(k) ==
    IF k < Min(fLast.offset, fBefore.m_size) \/ k >= LastPatchEnd
    THEN ImpliedByte(fBefore.m_content, k)
    ELSE IF k < fLast.offset THEN ZeroByte
    ELSE IF k < fLast.offset + Min(LastPatchSize, LastExternalAvailable) THEN ExternalByte(k)
    ELSE ZeroByte

\* C26: after one patch on a gap-free file, for every position k below the
\* new size the implied byte is the old byte if k < min(patch_offset, old
\* size) or k >= patch_end, 0 if old size <= k < patch_offset, the external
\* byte at clamped_external_offset + (k - patch_offset) on the first
\* min(patch_size, external_available) positions from patch_offset, and 0
\* on the rest of [patch_offset, patch_end).
C26_ByteEffect ==
    (LastAvailable /\ TilesExactly(fBefore.m_content, fBefore.m_size)) =>
      \A k \in 0..(fNode.m_size - 1) :
         SameByte(ImpliedByte(fNode.m_content, k), ExpectedByte(k))

\* a second patch of 2 bytes at offset 1 with 1 external byte on a file whose
\* bytes 2 and 3 came from an earlier patch: position 1 holds the external
\* byte, position 2 a zero, position 3 the byte of the earlier patch
C26_Witness ==
    /\ LastAvailable
    /\ fCalls = 2
    /\ fLast.offset = 1
    /\ fLast.length = 2
    /\ fLast.fileoffset = 1
    /\ ~fLast.resize
    /\ fBefore.m_size = 4
    /\ ImpliedByte(fBefore.m_content, 2).kind = "File"
    /\ ImpliedByte(fBefore.m_content, 3).kind = "File"
    /\ ImpliedByte(fNode.m_content, 0) = ImpliedByte(fBefore.m_content, 0)
    /\ ImpliedByte(fNode.m_content, 1).kind = "File"
    /\ ImpliedByte(fNode.m_content, 1).off = 1
    /\ ImpliedByte(fNode.m_content, 2) = ZeroByte
    /\ ImpliedByte(fNode.m_content, 3) = ImpliedByte(fBefore.m_content, 3)
(***************************************************************************)
(* Properties of a patch into a gap.                                       *)
(***************************************************************************)
\* the last patch started below the file size at a position no segment covered
PatchedIntoGap ==
    /\ LastAvailable
    /\ fLast.offset < fBefore.m_size
    /\ Covering(fBefore.m_content, fLast.offset) = {}

\* C27: on a file whose segment list is sorted and non-overlapping but has
\* gaps, a patch whose offset is below the file size and falls inside a gap
\* still yields a sorted, non-overlapping list.
C27_GapPatchKeepsOrder ==
    (/\ PatchedIntoGap
     /\ SortedByOffset(fBefore.m_content)
     /\ NonOverlapping(fBefore.m_content))
    => (SortedByOffset(fNode.m_content) /\ NonOverlapping(fNode.m_content))
(***************************************************************************)
(* Properties of the sibling names.                                        *)
(***************************************************************************)
\* two different nodes with the same parent
Siblings(p, q) ==
    /\ p # q
    /\ Len(p) = Len(q)
    /\ Prefix(p, Len(p) - 1) = Prefix(q, Len(q) - 1)

\* no folder, the root included, has two children whose names are equal
\* case-insensitively
SiblingsUnique(fst) ==
    \A p, q \in Pointers(fst) :
       Siblings(p, q)
         => ~CaseInsensitiveEquals(NodeAt(fst, p).m_filename, NodeAt(fst, q).m_filename)

\* C28: if no folder of the initial tree has two children whose names are
\* equal case-insensitively, then after any sequence of file and folder
\* patches, with any create flags and any letter case in the disc paths, no
\* folder has two such children.
C28_SiblingNamesUnique ==
    SiblingsUnique(tBefore.fst) => SiblingsUnique(tTree.fst)

\* /D/F with the create flag on the tree that holds d/f, then /n/f: the
\* folder d keeps its two children and the root gains the folder n
C28_Witness ==
    /\ tDone
    /\ Len(tPatches) = 1
    /\ Len(tPatches[1].m_file_patches) = 2
    /\ tPatches[1].m_file_patches[1].m_disc = <<"/", "D", "/", "F">>
    /\ tPatches[1].m_file_patches[1].m_create
    /\ tPatches[1].m_file_patches[2].m_disc = <<"/", "n", "/", "f">>
    /\ tPatches[1].m_file_patches[2].m_create
    /\ SiblingsUnique(tBefore.fst)
    /\ Len(tBefore.fst[1].m_content) = 2
    /\ Len(tTree.fst[1].m_content) = 2
    /\ Len(tTree.fst) = Len(tBefore.fst) + 1
    /\ tTree.fst[Len(tTree.fst)].m_filename = <<"n">>
(***************************************************************************)
(* Properties of the two phases.                                           *)
(***************************************************************************)
\* the memory patches of a patch list in list order
RECURSIVE AllMemories(_)
AllMemories(patches) ==
    IF patches = <<>> THEN <<>>
    ELSE Head(patches).m_memory_patches \o AllMemories(Tail(patches))

\* what a phase does with a memory patch
KindIn(phase, memory) ==
    IF phase = "general"
    THEN CASE memory.m_ocarina -> "none"
           [] ~memory.m_ocarina /\ memory.m_search -> "search"
           [] ~memory.m_ocarina /\ ~memory.m_search -> "direct"
    ELSE CASE memory.m_ocarina -> "hook"
           [] ~memory.m_ocarina /\ memory.m_search -> "search"
           [] ~memory.m_ocarina /\ ~memory.m_search -> "none"

\* the patch applied as its kind over the range of the phase
AppliedAs(kind, memory, state) ==
    CASE kind = "none" -> state
      [] kind = "hook" ->
           ApplyOcarinaMemoryPatch(Loader, memory, hLast.ram_start, hLast.length, state)
      [] kind = "search" ->
           ApplySearchMemoryPatch(Loader, memory, hLast.ram_start, hLast.length, state)
      [] kind = "direct" -> ApplyDirectMemoryPatchAt(Loader, memory, state)

\* the state after the first k memory patches of the list
RECURSIVE AfterPatches(_, _)
AfterPatches(memories, k) ==
    IF k = 0 THEN [mem |-> hBefore, log |-> <<>>]
    ELSE TheOnly({AppliedAs(KindIn(hLast.phase, memories[k]), memories[k], state) :
                  state \in {AfterPatches(memories, k - 1)}})

WordWrites == {k \in 1..Len(hLog) : hLog[k][1] = "write32"}

ByteWrites == {k \in 1..Len(hLog) : hLog[k][1] = "write"}

\* C29: memory patch kinds are dispatched by phase.  The general phase
\* applies no hook patch, applies a search patch over the whole RAM and every
\* other patch as a direct patch; the apploader phase applies no direct
\* patch, applies hook and search patches over the given range and a patch
\* flagged both hook and search as a hook patch; the patches are applied in
\* list order.
C29_DispatchByPhase ==
    hDone =>
      /\ [mem |-> hMem, log |-> hLog]
           = AfterPatches(AllMemories(hLast.patches), Len(AllMemories(hLast.patches)))
      /\ hLast.phase = "general" =>
           /\ WordWrites = {}
           /\ hLast.ram_start = RamBase32
           /\ hLast.length = Len(hBefore)
      /\ (hLast.phase = "apploader"
            /\ \A k \in 1..Len(AllMemories(hLast.patches)) :
                  ~AllMemories(hLast.patches)[k].m_search
                    \/ AllMemories(hLast.patches)[k].m_ocarina)
           => ByteWrites = {}

\* the apploader phase over the whole window with a search patch, then the
\* patch flagged hook and search, then a direct patch in a second patch: the
\* search wrote bytes, the hook wrote a jump and the direct patch wrote nothing
C29_Witness ==
    /\ hDone
    /\ hLast.phase = "apploader"
    /\ Len(hLast.patches) = 2
    /\ Len(hLast.patches[1].m_memory_patches) = 2
    /\ hLast.patches[1].m_memory_patches[1].m_search
    /\ ~hLast.patches[1].m_memory_patches[1].m_ocarina
    /\ hLast.patches[1].m_memory_patches[2].m_search
    /\ hLast.patches[1].m_memory_patches[2].m_ocarina
    /\ ~hLast.patches[2].m_memory_patches[1].m_search
    /\ ~hLast.patches[2].m_memory_patches[1].m_ocarina
    /\ ByteWrites # {}
    /\ WordWrites # {}
    /\ \A k \in ByteWrites : \A j \in WordWrites : k < j
    /\ \A k \in WordWrites : hLog[k][4]
(***************************************************************************)
(* Properties of the save differ.                                          *)
(***************************************************************************)
\* the block pairs of the two saves
BlockPairs == 1..Min(Len(dLhs.blocks), Len(dRhs.blocks))

\* the positions at which the b-th blocks of the two saves differ
Differing(b) ==
    {p \in 0..(BlockSize - 1) :
        dLhs.blocks[b].m_block[p + 1] # dRhs.blocks[b].m_block[p + 1]}

\* the positions of the half-open region <<start, end>>
Positions(region) == {p \in 0..(BlockSize - 1) : region[1] <= p /\ p < region[2]}

\* every region is well-formed and lies before the next one
Ascending(regions) ==
    /\ \A k \in 1..Len(regions) :
          /\ 0 <= regions[k][1]
          /\ regions[k][1] <= regions[k][2]
          /\ regions[k][2] <= BlockSize
    /\ \A k \in 1..(Len(regions) - 1) : regions[k][2] <= regions[k + 1][1]

\* the regions are ascending and disjoint and their union is Differing(b)
RegionsOf(b, regions) ==
    /\ Ascending(regions)
    /\ \A j, k \in 1..Len(regions) :
          j # k => Positions(regions[j]) \cap Positions(regions[k]) = {}
    /\ \A p \in 0..(BlockSize - 1) :
          Cardinality({k \in 1..Len(regions) : p \in Positions(regions[k])})
            = IF p \in Differing(b) THEN 1 ELSE 0

\* C30: calculate_diffs returns one entry per block pair, in block order;
\* the entry of a block pair is a list of half-open regions [start, end) that
\* is ascending and pairwise disjoint, and its union is exactly the set of
\* positions at which the two blocks differ: a differing position is in
\* exactly one region and an equal position is in none.
C30_RegionsAreTheDifferences ==
    /\ dStage # "diff_fault"
    /\ dStage = "diffed" =>
         /\ \A b \in 1..Len(dDiffs) : b \in BlockPairs
         /\ \A b \in BlockPairs : b <= Len(dDiffs) /\ RegionsOf(b, dDiffs[b])

\* the same on saves of which the second has at least as many blocks as the first
RegionsWhenSecondNotShorter ==
    (dStage = "diffed" /\ Len(dRhs.blocks) >= Len(dLhs.blocks)) =>
       /\ Len(dDiffs) = Len(dLhs.blocks)
       /\ \A b \in 1..Len(dDiffs) : RegionsOf(b, dDiffs[b])
====
